---- MODULE Spec2Model ----
(***************************************************************************)
(* A state-machine model of the three game programs of the repository:     *)
(*   "lumbridge"  src/lumbridge.py                                         *)
(*   "game"       src/medieval_game.py                                     *)
(*   "village"    src/medieval_village.py                                  *)
(* One behaviour is one session of one variant.  The two handlers of the   *)
(* main loop are the actions: Game.update (one tick, keyboard state as the *)
(* input) and Game.handle_click (one MOUSEBUTTONDOWN event, the pointer    *)
(* position and the damage roll as the input).  Rendering is not modelled. *)
(***************************************************************************)
EXTENDS Integers, Sequences, FiniteSets, TLC

VARIABLES
    variant,        \* which of the three programs runs
    player,         \* Game.player
    npcs,           \* Game.npcs (lumbridge, village)
    enemies,        \* Game.enemies
    resources,      \* Game.resources (game)
    camera,         \* Game.camera_x, Game.camera_y (lumbridge, village)
    message,        \* Game.message, by kind
    message_timer,  \* Game.message_timer
    last,           \* the handler that ran last, with its inputs (keys,
                    \* pointer, random draws) and the player's position
                    \* before it
    ticks           \* number of Game.update calls counted by the bounded actions

vars == <<variant, player, npcs, enemies, resources, camera, message,
          message_timer, last, ticks>>

(***************************************************************************)
(* Bounds of the model.                                                    *)
(***************************************************************************)
\* Game.update runs at most this many times in the bounded specifications.
MaxTicks == 2
\* Game.gather_resource adds at most this many items to the inventory.
MaxItems == 1
\* Game.update runs at most this many times in the stall specification.
MaxStall == 120
\* Game.update runs at most this many times in the medieval_game combat
\* specification.
MaxGameTicks == 1

(***************************************************************************)
(* Program constants.                                                      *)
(***************************************************************************)
TILE_SIZE == 32
\* Height of the UI panel at the bottom of the screen.
UI_HEIGHT == 150
\* The top strip of a building footprint that does not collide.
ROOF == 30

SCREEN_WIDTH(v) == IF v = "game" THEN 1024 ELSE 1280
SCREEN_HEIGHT(v) == IF v = "game" THEN 768 ELSE 720
world_width(v) == IF v = "lumbridge" THEN 3000 ELSE 2000
world_height(v) == IF v = "lumbridge" THEN 2500 ELSE 2000

Abs(n) == IF n < 0 THEN -n ELSE n
Min(a, b) == IF a < b THEN a ELSE b
Max(a, b) == IF a > b THEN a ELSE b

(***************************************************************************)
(* Buildings.                                                              *)
(***************************************************************************)
\* Building.__init__ of lumbridge: the size follows from the type.
LumbridgeBuilding(x, y, type) ==
    [x |-> x, y |-> y, type |-> type,
     width  |-> IF type = "castle" THEN 160
                ELSE IF type = "church" THEN 80
                ELSE IF type = "farm" THEN 100 ELSE 70,
     height |-> IF type = "castle" THEN 200
                ELSE IF type = "church" THEN 100
                ELSE IF type = "farm" THEN 80 ELSE 80]

\* Building.__init__ of village.
VillageBuilding(x, y, type) ==
    [x |-> x, y |-> y, type |-> type,
     width  |-> IF type # "castle" THEN 64 ELSE 96,
     height |-> IF type # "castle" THEN 80 ELSE 120]

\* Game.buildings as create_lumbridge / create_village build it; never mutated.
Buildings(v) ==
    IF v = "lumbridge" THEN
        << LumbridgeBuilding(900, 500, "castle"),
           LumbridgeBuilding(1050, 750, "church"),
           LumbridgeBuilding(750, 650, "general_store"),
           LumbridgeBuilding(950, 850, "bobs_axes"),
           LumbridgeBuilding(700, 400, "farm"),
           LumbridgeBuilding(650, 550, "farm"),
           LumbridgeBuilding(1350, 600, "goblin_house"),
           LumbridgeBuilding(800, 800, "house"),
           LumbridgeBuilding(850, 500, "house") >>
    ELSE IF v = "village" THEN
        << VillageBuilding(400, 300, "castle"),
           VillageBuilding(600, 400, "blacksmith"),
           VillageBuilding(700, 250, "tavern"),
           VillageBuilding(500, 550, "shop"),
           VillageBuilding(800, 500, "house"),
           VillageBuilding(300, 500, "church"),
           VillageBuilding(900, 350, "farm"),
           VillageBuilding(350, 650, "barracks") >>
    ELSE << >>

\* pygame.Rect(x, y, w, h)
Rect(x, y, w, h) == [x |-> x, y |-> y, w |-> w, h |-> h]

\* The rectangle an entity occupies when at (x, y).
EntityRect(x, y) == Rect(x, y, TILE_SIZE, TILE_SIZE)

\* The whole footprint of a building (what is drawn).
Footprint(b) == Rect(b.x, b.y, b.width, b.height)

\* building_rect: the footprint without its roof strip.
BuildingRect(b) == Rect(b.x, b.y + ROOF, b.width, b.height - ROOF)

\* pygame.Rect.colliderect for rectangles of positive size: touching edges
\* do not collide.
Colliderect(a, b) ==
    /\ a.x < b.x + b.w
    /\ a.y < b.y + b.h
    /\ a.x + a.w > b.x
    /\ a.y + a.h > b.y

\* The loop "for building in buildings: if test_rect.colliderect(...)".
HitsBuilding(v, x, y) ==
    \E i \in DOMAIN Buildings(v) :
        Colliderect(EntityRect(x, y), BuildingRect(Buildings(v)[i]))

(***************************************************************************)
(* The player.                                                             *)
(***************************************************************************)
PLAYER_SPEED == 4

\* Player.__init__ (with Character.__init__ in lumbridge and village), as
\* Game.__init__ / create_lumbridge / create_village call it.
NewPlayer(v) ==
    [x |-> IF v = "game" THEN SCREEN_WIDTH(v) \div 2
           ELSE IF v = "lumbridge" THEN 1000 ELSE world_width(v) \div 2,
     y |-> IF v = "game" THEN SCREEN_HEIGHT(v) \div 2
           ELSE IF v = "lumbridge" THEN 700 ELSE world_height(v) \div 2,
     direction |-> 0, walking |-> FALSE, walk_timer |-> 0,
     level |-> 1, hp |-> 10, max_hp |-> 10, attack |-> 1, defense |-> 1,
     combat_xp |-> 0, mining_xp |-> 0, fishing_xp |-> 0, woodcutting_xp |-> 0,
     gold |-> IF v = "village" THEN 100 ELSE 0,
     inventory |-> [k \in {} |-> 0]]

\* Mutant of MoveGame: the move is accepted only when both axes are legal.
MoveGameJoint(p, dx, dy) ==
    LET new_x == p.x + dx * PLAYER_SPEED
        new_y == p.y + dy * PLAYER_SPEED
    IN IF /\ 0 <= new_x /\ new_x <= SCREEN_WIDTH("game") - TILE_SIZE
          /\ 0 <= new_y
          /\ new_y <= SCREEN_HEIGHT("game") - TILE_SIZE - UI_HEIGHT
       THEN [p EXCEPT !.x = new_x, !.y = new_y]
       ELSE p

\* Player.move of medieval_game: each axis is accepted on its own.
MoveGame(p, dx, dy) ==
    LET new_x == p.x + dx * PLAYER_SPEED
        new_y == p.y + dy * PLAYER_SPEED
    IN [p EXCEPT
          !.x = IF 0 <= new_x /\ new_x <= SCREEN_WIDTH("game") - TILE_SIZE
                THEN new_x ELSE p.x,
          !.y = IF 0 <= new_y
                   /\ new_y <= SCREEN_HEIGHT("game") - TILE_SIZE - UI_HEIGHT
                THEN new_y ELSE p.y]

\* The direction Player.move of village faces after an accepted move.
Facing(dx, dy, old) ==
    IF dy > 0 THEN 0 ELSE IF dy < 0 THEN 2
    ELSE IF dx > 0 THEN 1 ELSE IF dx < 0 THEN 3 ELSE old

\* Mutant of MoveWorld: a move that hits a building slides along the
\* horizontal axis when that part alone is clear.
MoveWorldSlide(v, p, dx, dy) ==
    LET new_x == p.x + dx * PLAYER_SPEED
        new_y == p.y + dy * PLAYER_SPEED
        dx2 == IF new_x < 0 \/ new_x > world_width(v) - TILE_SIZE THEN 0 ELSE dx
        dy2 == IF new_y < 0 \/ new_y > world_height(v) - TILE_SIZE THEN 0 ELSE dy
    IN IF HitsBuilding(v, new_x, new_y)
       THEN IF HitsBuilding(v, new_x, p.y) THEN p
            ELSE [p EXCEPT !.x = new_x]
       ELSE IF dx2 # 0 \/ dy2 # 0
            THEN [p EXCEPT !.x = new_x, !.y = new_y,
                           !.walking = TRUE, !.walk_timer = p.walk_timer + 1,
                           !.direction = IF v = "village"
                                         THEN Facing(dx2, dy2, p.direction)
                                         ELSE p.direction]
            ELSE [p EXCEPT !.x = new_x, !.y = new_y,
                           !.walking = FALSE, !.walk_timer = 0]

\* Mutant of MoveWorld: the building test reads the rectangle the player
\* stands on, not the candidate.
MoveWorldTestsCurrent(v, p, dx, dy) ==
    LET new_x == p.x + dx * PLAYER_SPEED
        new_y == p.y + dy * PLAYER_SPEED
        dx2 == IF new_x < 0 \/ new_x > world_width(v) - TILE_SIZE THEN 0 ELSE dx
        dy2 == IF new_y < 0 \/ new_y > world_height(v) - TILE_SIZE THEN 0 ELSE dy
    IN IF HitsBuilding(v, p.x, p.y) THEN p
       ELSE IF dx2 # 0 \/ dy2 # 0
            THEN [p EXCEPT !.x = new_x, !.y = new_y,
                           !.walking = TRUE, !.walk_timer = p.walk_timer + 1,
                           !.direction = IF v = "village"
                                         THEN Facing(dx2, dy2, p.direction)
                                         ELSE p.direction]
            ELSE [p EXCEPT !.x = new_x, !.y = new_y,
                           !.walking = FALSE, !.walk_timer = 0]

\* Player.move of lumbridge and village.  The bounds check zeroes dx / dy
\* but new_x / new_y keep the values computed before it; a building hit
\* returns before anything is assigned.
MoveWorld(v, p, dx, dy) ==
    LET new_x == p.x + dx * PLAYER_SPEED
        new_y == p.y + dy * PLAYER_SPEED
        dx2 == IF new_x < 0 \/ new_x > world_width(v) - TILE_SIZE THEN 0 ELSE dx
        dy2 == IF new_y < 0 \/ new_y > world_height(v) - TILE_SIZE THEN 0 ELSE dy
    IN IF HitsBuilding(v, new_x, new_y) THEN p
       ELSE IF dx2 # 0 \/ dy2 # 0
            THEN [p EXCEPT !.x = new_x, !.y = new_y,
                           !.walking = TRUE, !.walk_timer = p.walk_timer + 1,
                           !.direction = IF v = "village"
                                         THEN Facing(dx2, dy2, p.direction)
                                         ELSE p.direction]
            ELSE [p EXCEPT !.x = new_x, !.y = new_y,
                           !.walking = FALSE, !.walk_timer = 0]

\* player.move(dx, dy, ...) of the running variant.
PlayerMove(v, p, dx, dy) ==
    IF v = "game" THEN MoveGame(p, dx, dy) ELSE MoveWorld(v, p, dx, dy)

(***************************************************************************)
(* NPCs and enemies.                                                       *)
(***************************************************************************)
\* The aggro radius of a village enemy.
AGGRO_RANGE == 150
\* Enemy.wander_area of lumbridge, and the literal 100 of village NPC.update.
WANDER_AREA == 100
\* The literal 30 of lumbridge NPC.update.
NPC_AREA == 30
\* Ticks between two wander attempts of a lumbridge enemy.
ENEMY_WANDER == 60
\* A walking flag set by a wander step is cleared once walk_timer exceeds this.
WALK_TICKS == 20
\* respawn_timer before attack_enemy of lumbridge creates the attribute.
NO_TIMER == -1

\* NPC.__init__ with Character.__init__; cd is the random.randint(60, 180)
\* drawn for wander_cooldown.  Hans (a circular floating-point path) is not
\* part of the modelled rosters.
NewNPC(x, y, cd) ==
    [x |-> x, y |-> y, start_x |-> x, start_y |-> y, speed |-> 1,
     direction |-> 0, walking |-> FALSE, walk_timer |-> 0,
     wander_timer |-> 0, wander_cooldown |-> cd]

\* Enemy.__init__ of the three variants ("enemy" is the untyped enemy of
\* medieval_game, which has no speed).
NewEnemy(v, x, y, type, level) ==
    [x |-> x, y |-> y, start_x |-> x, start_y |-> y,
     enemy_type |-> type, level |-> level,
     hp |-> IF v = "lumbridge" /\ type = "chicken" THEN 3 ELSE 5 * level,
     max_hp |-> IF v = "lumbridge" /\ type = "chicken" THEN 3 ELSE 5 * level,
     alive |-> TRUE,
     speed |-> IF v = "game" THEN 0
               ELSE IF v = "lumbridge" /\ type = "chicken" THEN 2 ELSE 1,
     direction |-> 0, walking |-> FALSE, walk_timer |-> 0,
     wander_timer |-> 0, chasing |-> FALSE, respawn_timer |-> NO_TIMER]

\* Resource.__init__ of medieval_game.
NewResource(x, y, type) == [x |-> x, y |-> y, type |-> type, hp |-> 3]

\* Mutant of WalkDecay: the flag is cleared when the timer reaches 20.
WalkDecayEarly(c) ==
    IF c.walking
    THEN IF c.walk_timer + 1 >= WALK_TICKS
         THEN [c EXCEPT !.walking = FALSE, !.walk_timer = 0]
         ELSE [c EXCEPT !.walk_timer = c.walk_timer + 1]
    ELSE c

\* The tail of Enemy.update (lumbridge) and NPC.update (village):
\* "if self.walking: self.walk_timer += 1; if self.walk_timer > 20: ...".
WalkDecay(c) ==
    IF c.walking
    THEN IF c.walk_timer + 1 > WALK_TICKS
         THEN [c EXCEPT !.walking = FALSE, !.walk_timer = 0]
         ELSE [c EXCEPT !.walk_timer = c.walk_timer + 1]
    ELSE c

\* Mutant of NearStart: the area bound is inclusive.
NearStartInclusive(c, new_x, new_y, area) ==
    Abs(new_x - c.start_x) <= area /\ Abs(new_y - c.start_y) <= area

\* The acceptance test of a wander proposal: each axis within the area.
NearStart(c, new_x, new_y, area) ==
    Abs(new_x - c.start_x) < area /\ Abs(new_y - c.start_y) < area

\* Mutant of NPCUpdateLumbridge: the cooldown restarts only when the
\* proposal is accepted.
NPCUpdateLumbridgeRetry(n, d) ==
    LET wt == n.wander_timer + 1
        new_x == n.x + d.dx * 10
        new_y == n.y + d.dy * 10
    IN IF wt >= n.wander_cooldown
       THEN IF NearStart(n, new_x, new_y, NPC_AREA)
            THEN [n EXCEPT !.x = new_x, !.y = new_y,
                           !.wander_timer = 0, !.wander_cooldown = d.cd]
            ELSE [n EXCEPT !.wander_timer = wt]
       ELSE [n EXCEPT !.wander_timer = wt]

\* NPC.update of lumbridge (not Hans).  d.dx, d.dy are the two
\* random.choice([-1, 0, 1]) and d.cd the random.randint(120, 300), read
\* only when the cooldown has elapsed.
NPCUpdateLumbridge(n, d) ==
    LET wt == n.wander_timer + 1
        new_x == n.x + d.dx * 10
        new_y == n.y + d.dy * 10
    IN IF wt >= n.wander_cooldown
       THEN IF NearStart(n, new_x, new_y, NPC_AREA)
            THEN [n EXCEPT !.x = new_x, !.y = new_y,
                           !.wander_timer = 0, !.wander_cooldown = d.cd]
            ELSE [n EXCEPT !.wander_timer = 0, !.wander_cooldown = d.cd]
       ELSE [n EXCEPT !.wander_timer = wt]

\* Mutant of NPCUpdateVillage: the proposal is not tested against the
\* buildings.
NPCUpdateVillageNoCollision(n, d) ==
    LET wt == n.wander_timer + 1
        new_x == n.x + d.dx * n.speed * 5
        new_y == n.y + d.dy * n.speed * 5
        moved == IF NearStart(n, new_x, new_y, WANDER_AREA)
                 THEN [n EXCEPT !.x = new_x, !.y = new_y,
                         !.walking = IF d.dx # 0 \/ d.dy # 0 THEN TRUE ELSE n.walking,
                         !.direction = Facing(d.dx, d.dy, n.direction)]
                 ELSE n
    IN IF wt >= n.wander_cooldown
       THEN WalkDecay([moved EXCEPT !.wander_timer = 0, !.wander_cooldown = d.cd])
       ELSE WalkDecay([n EXCEPT !.wander_timer = wt])

\* NPC.update of village: d.cd is the random.randint(60, 180).
NPCUpdateVillage(n, d) ==
    LET wt == n.wander_timer + 1
        new_x == n.x + d.dx * n.speed * 5
        new_y == n.y + d.dy * n.speed * 5
        moved == IF NearStart(n, new_x, new_y, WANDER_AREA)
                    /\ ~HitsBuilding("village", new_x, new_y)
                 THEN [n EXCEPT !.x = new_x, !.y = new_y,
                         !.walking = IF d.dx # 0 \/ d.dy # 0 THEN TRUE ELSE n.walking,
                         !.direction = Facing(d.dx, d.dy, n.direction)]
                 ELSE n
    IN IF wt >= n.wander_cooldown
       THEN WalkDecay([moved EXCEPT !.wander_timer = 0, !.wander_cooldown = d.cd])
       ELSE WalkDecay([n EXCEPT !.wander_timer = wt])

\* npc.update(buildings) of the running variant.
NPCUpdate(v, n, d) ==
    IF v = "lumbridge" THEN NPCUpdateLumbridge(n, d) ELSE NPCUpdateVillage(n, d)

\* Mutant of EnemyUpdateLumbridge: the proposal is accepted per axis.
EnemyUpdateLumbridgePerAxis(e, d) ==
    LET wt == e.wander_timer + 1
        new_x == e.x + d.dx * e.speed * 10
        new_y == e.y + d.dy * e.speed * 10
        okx == Abs(new_x - e.start_x) < WANDER_AREA
        oky == Abs(new_y - e.start_y) < WANDER_AREA
        moved == [e EXCEPT !.x = IF okx THEN new_x ELSE e.x,
                           !.y = IF oky THEN new_y ELSE e.y,
                           !.walking = IF (okx /\ d.dx # 0) \/ (oky /\ d.dy # 0)
                                       THEN TRUE ELSE e.walking]
    IN IF wt >= ENEMY_WANDER
       THEN WalkDecay([moved EXCEPT !.wander_timer = 0])
       ELSE WalkDecay([e EXCEPT !.wander_timer = wt])

\* Enemy.update of lumbridge: a wander attempt every 60 ticks, no building
\* test.
EnemyUpdateLumbridge(e, d) ==
    LET wt == e.wander_timer + 1
        new_x == e.x + d.dx * e.speed * 10
        new_y == e.y + d.dy * e.speed * 10
        moved == IF NearStart(e, new_x, new_y, WANDER_AREA)
                 THEN [e EXCEPT !.x = new_x, !.y = new_y,
                         !.walking = IF d.dx # 0 \/ d.dy # 0 THEN TRUE ELSE e.walking]
                 ELSE e
    IN IF wt >= ENEMY_WANDER
       THEN WalkDecay([moved EXCEPT !.wander_timer = 0])
       ELSE WalkDecay([e EXCEPT !.wander_timer = wt])

\* distance < self.aggro_range, with distance = math.sqrt(dx**2 + dy**2) of
\* integer dx, dy: the square root is below 150 exactly when the sum of the
\* squares is below 150 * 150.
InAggroRange(dx, dy) == dx * dx + dy * dy < AGGRO_RANGE * AGGRO_RANGE

\* Mutant of EnemyUpdateVillage: the chase steps are not tested against the
\* buildings.
EnemyUpdateVillageNoCollision(e, p) ==
    LET dx == p.x - e.x
        dy == p.y - e.y
        new_x == e.x + (IF dx > 0 THEN e.speed ELSE -e.speed)
        stepx == IF Abs(dx) > 5
                 THEN [e EXCEPT !.chasing = TRUE, !.x = new_x,
                                !.direction = IF dx > 0 THEN 1 ELSE 3,
                                !.walking = TRUE]
                 ELSE [e EXCEPT !.chasing = TRUE]
        new_y == e.y + (IF dy > 0 THEN e.speed ELSE -e.speed)
        stepy == IF Abs(dy) > 5
                 THEN [stepx EXCEPT !.y = new_y,
                                    !.direction = IF dy > 0 THEN 0 ELSE 2,
                                    !.walking = TRUE]
                 ELSE stepx
    IN IF InAggroRange(dx, dy)
       THEN [stepy EXCEPT !.walk_timer = e.walk_timer + 1]
       ELSE [e EXCEPT !.chasing = FALSE, !.walking = FALSE]

\* Mutant of EnemyUpdateVillage: the vertical test reads the x of the start
\* of the tick.
EnemyUpdateVillageStartX(e, p) ==
    LET dx == p.x - e.x
        dy == p.y - e.y
        new_x == e.x + (IF dx > 0 THEN e.speed ELSE -e.speed)
        stepx == IF Abs(dx) > 5 /\ ~HitsBuilding("village", new_x, e.y)
                 THEN [e EXCEPT !.chasing = TRUE, !.x = new_x,
                                !.direction = IF dx > 0 THEN 1 ELSE 3,
                                !.walking = TRUE]
                 ELSE [e EXCEPT !.chasing = TRUE]
        new_y == e.y + (IF dy > 0 THEN e.speed ELSE -e.speed)
        stepy == IF Abs(dy) > 5 /\ ~HitsBuilding("village", e.x, new_y)
                 THEN [stepx EXCEPT !.y = new_y,
                                    !.direction = IF dy > 0 THEN 0 ELSE 2,
                                    !.walking = TRUE]
                 ELSE stepx
    IN IF InAggroRange(dx, dy)
       THEN [stepy EXCEPT !.walk_timer = e.walk_timer + 1]
       ELSE [e EXCEPT !.chasing = FALSE, !.walking = FALSE]

\* Mutant of EnemyUpdateVillage: out of range only the chasing flag is
\* cleared.
EnemyUpdateVillageKeepWalking(e, p) ==
    LET dx == p.x - e.x
        dy == p.y - e.y
        new_x == e.x + (IF dx > 0 THEN e.speed ELSE -e.speed)
        stepx == IF Abs(dx) > 5 /\ ~HitsBuilding("village", new_x, e.y)
                 THEN [e EXCEPT !.chasing = TRUE, !.x = new_x,
                                !.direction = IF dx > 0 THEN 1 ELSE 3,
                                !.walking = TRUE]
                 ELSE [e EXCEPT !.chasing = TRUE]
        new_y == e.y + (IF dy > 0 THEN e.speed ELSE -e.speed)
        stepy == IF Abs(dy) > 5 /\ ~HitsBuilding("village", stepx.x, new_y)
                 THEN [stepx EXCEPT !.y = new_y,
                                    !.direction = IF dy > 0 THEN 0 ELSE 2,
                                    !.walking = TRUE]
                 ELSE stepx
    IN IF InAggroRange(dx, dy)
       THEN [stepy EXCEPT !.walk_timer = e.walk_timer + 1]
       ELSE [e EXCEPT !.chasing = FALSE]

\* Enemy.update of village: chase the player when in range.  dx, dy are
\* computed once, before either step; the vertical test reads self.x after
\* the horizontal step.
EnemyUpdateVillage(e, p) ==
    LET dx == p.x - e.x
        dy == p.y - e.y
        new_x == e.x + (IF dx > 0 THEN e.speed ELSE -e.speed)
        stepx == IF Abs(dx) > 5 /\ ~HitsBuilding("village", new_x, e.y)
                 THEN [e EXCEPT !.chasing = TRUE, !.x = new_x,
                                !.direction = IF dx > 0 THEN 1 ELSE 3,
                                !.walking = TRUE]
                 ELSE [e EXCEPT !.chasing = TRUE]
        new_y == e.y + (IF dy > 0 THEN e.speed ELSE -e.speed)
        stepy == IF Abs(dy) > 5 /\ ~HitsBuilding("village", stepx.x, new_y)
                 THEN [stepx EXCEPT !.y = new_y,
                                    !.direction = IF dy > 0 THEN 0 ELSE 2,
                                    !.walking = TRUE]
                 ELSE stepx
    IN IF InAggroRange(dx, dy)
       THEN [stepy EXCEPT !.walk_timer = e.walk_timer + 1]
       ELSE [e EXCEPT !.chasing = FALSE, !.walking = FALSE]

\* enemy.update(...) of the running variant (medieval_game has none); p is
\* the player after this tick's move.
EnemyUpdate(v, e, p, d) ==
    IF v = "lumbridge" THEN EnemyUpdateLumbridge(e, d)
    ELSE IF v = "village" THEN EnemyUpdateVillage(e, p)
    ELSE e

(***************************************************************************)
(* Game.update: one tick.                                                  *)
(***************************************************************************)
\* dx, dy as Game.update derives them from the held keys: of two opposite
\* keys the later test wins.
KeyDx(left, right) == IF right THEN 1 ELSE IF left THEN -1 ELSE 0
KeyDy(up, down) == IF down THEN 1 ELSE IF up THEN -1 ELSE 0

\* Game.update_camera: the camera follows the player, clamped to the world.
UpdateCamera(v, p) ==
    [x |-> Max(0, Min(p.x - SCREEN_WIDTH(v) \div 2,
                      world_width(v) - SCREEN_WIDTH(v))),
     y |-> Max(0, Min(p.y - SCREEN_HEIGHT(v) \div 2 + 75,
                      world_height(v) - SCREEN_HEIGHT(v) + UI_HEIGHT))]

\* A draw that is never read (the entity's cooldown has not elapsed).
NoDraw == [dx |-> 0, dy |-> 0, cd |-> 0]

\* The wander cooldowns the model draws from random.randint(lo, hi).
CooldownChoices(lo, hi) == {lo, hi}

\* The random values one NPC.update may read this tick.
NPCDraws(v, n) ==
    IF n.wander_timer + 1 >= n.wander_cooldown
    THEN { [dx |-> a, dy |-> b, cd |-> c] :
             a \in {-1, 0, 1}, b \in {-1, 0, 1},
             c \in IF v = "lumbridge" THEN CooldownChoices(120, 300)
                   ELSE CooldownChoices(60, 180) }
    ELSE {NoDraw}

\* The random values one Enemy.update may read this tick.
EnemyDraws(v, e) ==
    IF v = "lumbridge" /\ e.alive /\ e.wander_timer + 1 >= ENEMY_WANDER
    THEN { [dx |-> a, dy |-> b, cd |-> 0] : a \in {-1, 0, 1}, b \in {-1, 0, 1} }
    ELSE {NoDraw}

\* One draw for every NPC of the session.
AllNPCDraws ==
    { f \in [DOMAIN npcs ->
               UNION { NPCDraws(variant, npcs[i]) : i \in DOMAIN npcs }] :
        \A i \in DOMAIN npcs : f[i] \in NPCDraws(variant, npcs[i]) }

\* One draw for every enemy of the session.
AllEnemyDraws ==
    { f \in [DOMAIN enemies ->
               UNION { EnemyDraws(variant, enemies[i]) : i \in DOMAIN enemies }] :
        \A i \in DOMAIN enemies : f[i] \in EnemyDraws(variant, enemies[i]) }

\* Mutant of Update: a dead lumbridge enemy counts its respawn_timer down
\* and is alive again with full hp when it reaches 0.
UpdateRespawn(dx, dy, nd, ed) ==
    LET p == IF dx # 0 \/ dy # 0 THEN PlayerMove(variant, player, dx, dy)
             ELSE player
    IN /\ player' = p
       /\ npcs' = [i \in DOMAIN npcs |-> NPCUpdate(variant, npcs[i], nd[i])]
       /\ enemies' = [i \in DOMAIN enemies |->
                        IF enemies[i].alive
                        THEN EnemyUpdate(variant, enemies[i], p, ed[i])
                        ELSE IF variant # "lumbridge" THEN enemies[i]
                        ELSE IF enemies[i].respawn_timer - 1 <= 0
                        THEN [enemies[i] EXCEPT !.alive = TRUE,
                                                !.hp = enemies[i].max_hp,
                                                !.respawn_timer = 0]
                        ELSE [enemies[i] EXCEPT
                                !.respawn_timer = enemies[i].respawn_timer - 1]]
       /\ camera' = IF variant = "game" THEN camera ELSE UpdateCamera(variant, p)
       /\ message_timer' = IF message_timer > 0 THEN message_timer - 1
                           ELSE message_timer
       /\ last' = [op |-> "update", dx |-> dx, dy |-> dy,
                   px |-> player.x, py |-> player.y,
                   mx |-> 0, my |-> 0, target |-> 0, killed |-> FALSE,
                   nd |-> nd, ed |-> ed]
       /\ UNCHANGED <<variant, resources, message>>

\* Mutant of Update: the message countdown is not guarded.
UpdateCountdown(dx, dy, nd, ed) ==
    LET p == IF dx # 0 \/ dy # 0 THEN PlayerMove(variant, player, dx, dy)
             ELSE player
    IN /\ player' = p
       /\ npcs' = [i \in DOMAIN npcs |-> NPCUpdate(variant, npcs[i], nd[i])]
       /\ enemies' = [i \in DOMAIN enemies |->
                        IF enemies[i].alive
                        THEN EnemyUpdate(variant, enemies[i], p, ed[i])
                        ELSE enemies[i]]
       /\ camera' = IF variant = "game" THEN camera ELSE UpdateCamera(variant, p)
       /\ message_timer' = message_timer - 1
       /\ last' = [op |-> "update", dx |-> dx, dy |-> dy,
                   px |-> player.x, py |-> player.y,
                   mx |-> 0, my |-> 0, target |-> 0, killed |-> FALSE,
                   nd |-> nd, ed |-> ed]
       /\ UNCHANGED <<variant, resources, message>>

\* Mutant of Update: the enemies see the player as it was before its move.
UpdateStale(dx, dy, nd, ed) ==
    LET p == IF dx # 0 \/ dy # 0 THEN PlayerMove(variant, player, dx, dy)
             ELSE player
    IN /\ player' = p
       /\ npcs' = [i \in DOMAIN npcs |-> NPCUpdate(variant, npcs[i], nd[i])]
       /\ enemies' = [i \in DOMAIN enemies |->
                        IF enemies[i].alive
                        THEN EnemyUpdate(variant, enemies[i], player, ed[i])
                        ELSE enemies[i]]
       /\ camera' = IF variant = "game" THEN camera ELSE UpdateCamera(variant, p)
       /\ message_timer' = IF message_timer > 0 THEN message_timer - 1
                           ELSE message_timer
       /\ last' = [op |-> "update", dx |-> dx, dy |-> dy,
                   px |-> player.x, py |-> player.y,
                   mx |-> 0, my |-> 0, target |-> 0, killed |-> FALSE,
                   nd |-> nd, ed |-> ed]
       /\ UNCHANGED <<variant, resources, message>>

\* Mutant of Update: dead enemies are updated too.
UpdateDead(dx, dy, nd, ed) ==
    LET p == IF dx # 0 \/ dy # 0 THEN PlayerMove(variant, player, dx, dy)
             ELSE player
    IN /\ player' = p
       /\ npcs' = [i \in DOMAIN npcs |-> NPCUpdate(variant, npcs[i], nd[i])]
       /\ enemies' = [i \in DOMAIN enemies |->
                        EnemyUpdate(variant, enemies[i], p, ed[i])]
       /\ camera' = IF variant = "game" THEN camera ELSE UpdateCamera(variant, p)
       /\ message_timer' = IF message_timer > 0 THEN message_timer - 1
                           ELSE message_timer
       /\ last' = [op |-> "update", dx |-> dx, dy |-> dy,
                   px |-> player.x, py |-> player.y,
                   mx |-> 0, my |-> 0, target |-> 0, killed |-> FALSE,
                   nd |-> nd, ed |-> ed]
       /\ UNCHANGED <<variant, resources, message>>

\* Game.update with dx, dy from the keys and the random draws nd (NPCs) and
\* ed (enemies): the player, then every NPC, then every alive enemy, then
\* the camera and the message countdown.
Update(dx, dy, nd, ed) ==
    LET p == IF dx # 0 \/ dy # 0 THEN PlayerMove(variant, player, dx, dy)
             ELSE player
    IN /\ player' = p
       /\ npcs' = [i \in DOMAIN npcs |-> NPCUpdate(variant, npcs[i], nd[i])]
       /\ enemies' = [i \in DOMAIN enemies |->
                        IF enemies[i].alive
                        THEN EnemyUpdate(variant, enemies[i], p, ed[i])
                        ELSE enemies[i]]
       /\ camera' = IF variant = "game" THEN camera ELSE UpdateCamera(variant, p)
       /\ message_timer' = IF message_timer > 0 THEN message_timer - 1
                           ELSE message_timer
       /\ last' = [op |-> "update", dx |-> dx, dy |-> dy,
                   px |-> player.x, py |-> player.y,
                   mx |-> 0, my |-> 0, target |-> 0, killed |-> FALSE,
                   nd |-> nd, ed |-> ed]
       /\ UNCHANGED <<variant, resources, message>>

\* draw_ui renders the message exactly while the countdown is positive.
MessageShown == message_timer > 0

\* The (dx, dy) the sixteen states of the four movement keys give.
KeyStates ==
    { [dx |-> KeyDx(left, right), dy |-> KeyDy(up, down)] :
        up \in BOOLEAN, down \in BOOLEAN, left \in BOOLEAN, right \in BOOLEAN }

\* One tick with any keys held.
Tick ==
    \E k \in KeyStates :
      \E nd \in AllNPCDraws,
         ed \in AllEnemyDraws :
        /\ Update(k.dx, k.dy, nd, ed)
        /\ UNCHANGED ticks

\* One tick with any keys held, counted against MaxTicks.
TickBounded ==
    /\ ticks < MaxTicks
    /\ \E k \in KeyStates :
         \E nd \in AllNPCDraws,
            ed \in AllEnemyDraws :
           Update(k.dx, k.dy, nd, ed)
    /\ ticks' = ticks + 1

\* One tick with any keys held, counted against MaxGameTicks.
TickGameBounded ==
    /\ ticks < MaxGameTicks
    /\ \E k \in KeyStates :
         \E nd \in AllNPCDraws,
            ed \in AllEnemyDraws :
           Update(k.dx, k.dy, nd, ed)
    /\ ticks' = ticks + 1

\* One tick with no key held.
TickIdle ==
    \E nd \in AllNPCDraws,
       ed \in AllEnemyDraws :
      /\ Update(KeyDx(FALSE, FALSE), KeyDy(FALSE, FALSE), nd, ed)
      /\ UNCHANGED ticks

\* One tick with no key held, counted against MaxTicks.
TickIdleBounded ==
    /\ ticks < MaxTicks
    /\ \E nd \in AllNPCDraws,
          ed \in AllEnemyDraws :
         Update(KeyDx(FALSE, FALSE), KeyDy(FALSE, FALSE), nd, ed)
    /\ ticks' = ticks + 1

\* One tick with no key held, counted against MaxStall.
TickIdleStall ==
    /\ ticks < MaxStall
    /\ \E nd \in AllNPCDraws,
          ed \in AllEnemyDraws :
         Update(KeyDx(FALSE, FALSE), KeyDy(FALSE, FALSE), nd, ed)
    /\ ticks' = ticks + 1

(***************************************************************************)
(* Game.handle_click: one pointer activation.                              *)
(***************************************************************************)
\* Mutant of Contains: the right and bottom bounds are exclusive.
ContainsExclusive(c, wx, wy) ==
    /\ c.x <= wx /\ wx < c.x + TILE_SIZE
    /\ c.y <= wy /\ wy < c.y + TILE_SIZE

\* The containment test of handle_click: both bounds inclusive.
Contains(c, wx, wy) ==
    /\ c.x <= wx /\ wx <= c.x + TILE_SIZE
    /\ c.y <= wy /\ wy <= c.y + TILE_SIZE

\* Mutant of FirstEnemy: the alive test is missing.
FirstEnemyAny(es, wx, wy) ==
    LET hit == { i \in DOMAIN es : Contains(es[i], wx, wy) }
    IN IF hit = {} THEN 0 ELSE CHOOSE i \in hit : \A j \in hit : i <= j

\* The enemy the loop of handle_click attacks: the first alive one, in list
\* order, that contains the point; 0 when there is none.
FirstEnemy(es, wx, wy) ==
    LET hit == { i \in DOMAIN es : es[i].alive /\ Contains(es[i], wx, wy) }
    IN IF hit = {} THEN 0 ELSE CHOOSE i \in hit : \A j \in hit : i <= j

\* The resource the second loop of handle_click (medieval_game) gathers.
FirstResource(rs, wx, wy) ==
    LET hit == { i \in DOMAIN rs : rs[i].hp > 0 /\ Contains(rs[i], wx, wy) }
    IN IF hit = {} THEN 0 ELSE CHOOSE i \in hit : \A j \in hit : i <= j

\* damage: player.attack, plus random.randint(0, 2) outside medieval_game.
Damage(v, p, roll) == IF v = "game" THEN p.attack ELSE p.attack + roll

\* Mutant of XpReward: the chicken override is missing.
XpRewardNoOverride(v, e) ==
    IF v = "village" THEN e.level * 15 ELSE e.level * 10

\* xp / xp_gained of attack_enemy.
XpReward(v, e) ==
    IF v = "village" THEN e.level * 15
    ELSE IF v = "lumbridge" /\ e.enemy_type = "chicken" THEN 5
    ELSE e.level * 10

\* Mutant of GoldReward: every variant pays 10 gold per level.
GoldRewardVillage(v, e) == e.level * 10

\* gold / gold_gained of attack_enemy.
GoldReward(v, e) == IF v = "village" THEN e.level * 10 ELSE e.level * 5

\* Mutant of XpNeeded: medieval_game needs 40 experience per level.
XpNeededForty(v) == IF v = "village" THEN 100 ELSE 40

\* Experience needed per level for the level-up of attack_enemy.
XpNeeded(v) == IF v = "village" THEN 100 ELSE 50

\* Mutant of LevelUp: the test is repeated until the experience is below the
\* threshold of the level reached.
LevelUpCompounding(v, p) ==
    LET reached == p.combat_xp \div XpNeeded(v) + 1
        n == IF v # "lumbridge" /\ reached > p.level THEN reached - p.level
             ELSE 0
        gain == IF v = "village" THEN 3 ELSE 2
    IN [p EXCEPT !.level = p.level + n, !.attack = p.attack + n,
                 !.defense = p.defense + n,
                 !.max_hp = p.max_hp + n * gain,
                 !.hp = IF n > 0 THEN p.max_hp + n * gain ELSE p.hp]

\* Mutant of LevelUp: the level-up does not heal.
LevelUpNoHeal(v, p) ==
    IF v # "lumbridge" /\ p.combat_xp >= p.level * XpNeeded(v)
    THEN [p EXCEPT !.level = p.level + 1, !.attack = p.attack + 1,
                   !.defense = p.defense + 1,
                   !.max_hp = p.max_hp + (IF v = "village" THEN 3 ELSE 2)]
    ELSE p

\* The "Level up check" of attack_enemy (medieval_game, village): one test,
\* one level.  lumbridge has none.
LevelUp(v, p) ==
    IF v # "lumbridge" /\ p.combat_xp >= p.level * XpNeeded(v)
    THEN [p EXCEPT !.level = p.level + 1, !.attack = p.attack + 1,
                   !.defense = p.defense + 1,
                   !.max_hp = p.max_hp + (IF v = "village" THEN 3 ELSE 2),
                   !.hp = p.max_hp + (IF v = "village" THEN 3 ELSE 2)]
    ELSE p

\* Mutant of Struck: the defeat test is hp < 0.
StruckLate(v, e, damage) ==
    IF e.hp - damage < 0
    THEN [e EXCEPT !.hp = e.hp - damage, !.alive = FALSE,
                   !.respawn_timer = IF v = "lumbridge" THEN 300
                                     ELSE e.respawn_timer]
    ELSE [e EXCEPT !.hp = e.hp - damage]

\* The enemy after "enemy.hp -= damage" and the defeat test.
Struck(v, e, damage) ==
    IF e.hp - damage <= 0
    THEN [e EXCEPT !.hp = e.hp - damage, !.alive = FALSE,
                   !.respawn_timer = IF v = "lumbridge" THEN 300
                                     ELSE e.respawn_timer]
    ELSE [e EXCEPT !.hp = e.hp - damage]

\* Mutant of Rewarded: the level-up test runs before the reward is credited.
RewardedStale(v, p, e, damage) ==
    IF e.hp - damage <= 0
    THEN [LevelUp(v, p) EXCEPT !.combat_xp = p.combat_xp + XpReward(v, e),
                               !.gold = p.gold + GoldReward(v, e)]
    ELSE p

\* The player after attack_enemy has struck e with damage.
Rewarded(v, p, e, damage) ==
    IF e.hp - damage <= 0
    THEN LevelUp(v, [p EXCEPT !.combat_xp = p.combat_xp + XpReward(v, e),
                              !.gold = p.gold + GoldReward(v, e)])
    ELSE p

\* Game.attack_enemy on enemies[i].
AttackEnemy(i, roll) ==
    LET e == enemies[i]
        damage == Damage(variant, player, roll)
        p == Rewarded(variant, player, e, damage)
        dead == e.hp - damage <= 0
    IN /\ enemies' = [enemies EXCEPT ![i] = Struck(variant, e, damage)]
       /\ player' = p
       /\ message' = IF ~dead THEN [kind |-> "hit", arg |-> damage]
                     ELSE IF p.level # player.level
                          THEN [kind |-> "levelup", arg |-> p.level]
                          ELSE [kind |-> "defeated", arg |-> XpReward(variant, e)]
       /\ message_timer' = IF ~dead THEN 120
                           ELSE IF p.level # player.level THEN 240 ELSE 180
       /\ UNCHANGED resources

\* inventory.get(item, 0)
Count(inv, item) == IF item \in DOMAIN inv THEN inv[item] ELSE 0

\* inventory[item] = inventory.get(item, 0) + 1
AddItem(inv, item) ==
    [k \in DOMAIN inv \cup {item} |-> IF k = item THEN Count(inv, item) + 1
                                      ELSE inv[k]]

\* The player after a gather that exhausts a node of the given type.
Gathered(p, type) ==
    IF type = "tree"
    THEN [p EXCEPT !.woodcutting_xp = p.woodcutting_xp + 10,
                   !.inventory = AddItem(p.inventory, "logs")]
    ELSE IF type = "rock"
    THEN [p EXCEPT !.mining_xp = p.mining_xp + 15,
                   !.inventory = AddItem(p.inventory, "ore")]
    ELSE IF type = "fish"
    THEN [p EXCEPT !.fishing_xp = p.fishing_xp + 12,
                   !.inventory = AddItem(p.inventory, "fish")]
    ELSE p

\* Mutant of GatherResource: an exhausted node is not reset to 3.
GatherResourceNoRespawn(i) ==
    LET r == resources[i]
    IN /\ resources' = [resources EXCEPT ![i].hp = r.hp - 1]
       /\ player' = IF r.hp - 1 <= 0 THEN Gathered(player, r.type) ELSE player
       /\ message' = IF r.hp - 1 <= 0 THEN [kind |-> "gathered", arg |-> i]
                     ELSE [kind |-> "gathering", arg |-> i]
       /\ message_timer' = IF r.hp - 1 <= 0 THEN 180 ELSE 60
       /\ UNCHANGED enemies

\* Game.gather_resource on resources[i].
GatherResource(i) ==
    LET r == resources[i]
    IN /\ resources' = [resources EXCEPT ![i].hp = IF r.hp - 1 <= 0 THEN 3
                                                   ELSE r.hp - 1]
       /\ player' = IF r.hp - 1 <= 0 THEN Gathered(player, r.type) ELSE player
       /\ message' = IF r.hp - 1 <= 0 THEN [kind |-> "gathered", arg |-> i]
                     ELSE [kind |-> "gathering", arg |-> i]
       /\ message_timer' = IF r.hp - 1 <= 0 THEN 180 ELSE 60
       /\ UNCHANGED enemies

\* Game.handle_click at the world point (wx, wy), with the damage roll the
\* attack would draw.
HandleClick(wx, wy, roll) ==
    LET i == FirstEnemy(enemies, wx, wy)
        j == FirstResource(resources, wx, wy)
    IN /\ IF i # 0 THEN AttackEnemy(i, roll)
          ELSE IF variant = "game" /\ j # 0 THEN GatherResource(j)
          ELSE UNCHANGED <<enemies, player, resources, message, message_timer>>
       /\ last' = [op |-> "click", dx |-> 0, dy |-> 0,
                   px |-> player.x, py |-> player.y,
                   mx |-> wx, my |-> wy, target |-> i,
                   killed |-> i # 0 /\ ~enemies'[i].alive,
                   nd |-> << >>, ed |-> << >>]
       /\ UNCHANGED <<variant, npcs, camera, ticks>>

\* Number of items in the inventory.
ItemCount(p) ==
    Count(p.inventory, "logs") + Count(p.inventory, "ore")
      + Count(p.inventory, "fish")

\* The world points the model clicks: the centre of every enemy, the centre
\* of every resource (while the inventory holds fewer than MaxItems items),
\* and the top left of the view.
ClickPoints ==
    { [x |-> enemies[i].x + TILE_SIZE \div 2,
       y |-> enemies[i].y + TILE_SIZE \div 2] : i \in DOMAIN enemies }
    \cup { [x |-> resources[i].x + TILE_SIZE \div 2,
            y |-> resources[i].y + TILE_SIZE \div 2] :
             i \in { k \in DOMAIN resources : ItemCount(player) < MaxItems } }
    \cup { [x |-> camera.x, y |-> camera.y] }

\* handle_events: pygame.mouse.get_pos() lies on the screen, and the world
\* point is the mouse position plus the camera (which medieval_game lacks
\* and the model keeps at (0, 0) there).
OnScreen(v, w) ==
    /\ 0 <= w.x - camera.x /\ w.x - camera.x < SCREEN_WIDTH(v)
    /\ 0 <= w.y - camera.y /\ w.y - camera.y < SCREEN_HEIGHT(v)

\* The values of random.randint(0, 2) in attack_enemy; medieval_game draws
\* none.
Rolls(v) == IF v = "game" THEN {0} ELSE 0..2

\* One MOUSEBUTTONDOWN event.
Click ==
    \E w \in ClickPoints, roll \in Rolls(variant) :
        /\ OnScreen(variant, w)
        /\ HandleClick(w.x, w.y, roll)

\* World points on and just past the edge of the targets: the bottom right
\* corner of every enemy and resource, and the point one pixel right of it.
EdgePoints ==
    { [x |-> enemies[i].x + TILE_SIZE + k, y |-> enemies[i].y + TILE_SIZE] :
        i \in DOMAIN enemies, k \in {0, 1} }
    \cup { [x |-> resources[i].x + TILE_SIZE + k,
            y |-> resources[i].y + TILE_SIZE] :
             i \in { j \in DOMAIN resources : ItemCount(player) < MaxItems },
             k \in {0, 1} }

\* One MOUSEBUTTONDOWN event at an edge point.
ClickEdge ==
    \E w \in EdgePoints, roll \in Rolls(variant) :
        /\ OnScreen(variant, w)
        /\ HandleClick(w.x, w.y, roll)

(***************************************************************************)
(* Initial states.                                                         *)
(***************************************************************************)
\* "last" before any handler has run.
NoHandler(p) ==
    [op |-> "init", dx |-> 0, dy |-> 0, px |-> p.x, py |-> p.y,
     mx |-> 0, my |-> 0, target |-> 0, killed |-> FALSE,
     nd |-> << >>, ed |-> << >>]

\* Game.__init__ of medieval_game: enemies and resources.
GameEnemies ==
    << NewEnemy("game", 200, 200, "enemy", 1),
       NewEnemy("game", 400, 150, "enemy", 2),
       NewEnemy("game", 600, 300, "enemy", 1) >>

GameResources ==
    << NewResource(100, 100, "tree"), NewResource(150, 100, "tree"),
       NewResource(300, 400, "rock"), NewResource(350, 400, "rock"),
       NewResource(700, 200, "fish") >>

\* The state a session is in after Game.__init__, for the given rosters.
Constructed(v, ns, es, rs) ==
    /\ variant = v
    /\ player = NewPlayer(v)
    /\ npcs = ns
    /\ enemies = es
    /\ resources = rs
    /\ camera = [x |-> 0, y |-> 0]
    /\ message = [kind |-> "welcome", arg |-> 0]
    /\ message_timer = 300
    /\ last = NoHandler(NewPlayer(v))
    /\ ticks = 0

\* The player after walking n accepted steps of a shortest path from the
\* spawn point to (x, y), facing d (the last step of that path).
Walked(v, x, y, n, d) ==
    [NewPlayer(v) EXCEPT !.x = x, !.y = y, !.walking = n > 0,
                         !.walk_timer = n, !.direction = d]

\* Player states of lumbridge and village from which the movement claims
\* are explored: the spawn point, two corners of the world, and places next
\* to a building.  n is the length of a shortest walk from the spawn point
\* (every step of it accepted), so each of them is a state a session
\* reaches after n ticks.
MoveStarts ==
    { [v |-> "lumbridge", x |-> 1000, y |-> 700, n |-> 0, d |-> 0],
      [v |-> "lumbridge", x |-> 4, y |-> 4, n |-> 252, d |-> 0],
      [v |-> "lumbridge", x |-> 2964, y |-> 2464, n |-> 491, d |-> 0],
      [v |-> "lumbridge", x |-> 1000, y |-> 816, n |-> 29, d |-> 0],
      [v |-> "village", x |-> 1000, y |-> 1000, n |-> 0, d |-> 0],
      [v |-> "village", x |-> 4, y |-> 4, n |-> 264, d |-> 2],
      [v |-> "village", x |-> 1964, y |-> 1964, n |-> 241, d |-> 0],
      [v |-> "village", x |-> 864, y |-> 540, n |-> 115, d |-> 2],
      [v |-> "village", x |-> 864, y |-> 492, n |-> 127, d |-> 2] }

\* A session of lumbridge or village n ticks after Game.__init__, the player
\* having walked to one of MoveStarts.  NPCs and enemies never touch the
\* player's movement and are left out of the roster.
InitMove ==
    \E s \in MoveStarts :
        /\ variant = s.v
        /\ player = Walked(s.v, s.x, s.y, s.n, s.d)
        /\ npcs = << >>
        /\ enemies = << >>
        /\ resources = << >>
        /\ camera = IF s.n = 0 THEN [x |-> 0, y |-> 0]
                    ELSE UpdateCamera(s.v, Walked(s.v, s.x, s.y, s.n, s.d))
        /\ message = [kind |-> "welcome", arg |-> 0]
        /\ message_timer = Max(0, 300 - s.n)
        /\ last = NoHandler(Walked(s.v, s.x, s.y, s.n, s.d))
        /\ ticks = 0

\* A session of medieval_game 300 ticks after Game.__init__ with no key
\* held and no click: the welcome message has expired, nothing else changed.
InitGameIdle ==
    /\ variant = "game"
    /\ player = NewPlayer("game")
    /\ npcs = << >>
    /\ enemies = GameEnemies
    /\ resources = GameResources
    /\ camera = [x |-> 0, y |-> 0]
    /\ message = [kind |-> "welcome", arg |-> 0]
    /\ message_timer = 0
    /\ last = NoHandler(NewPlayer("game"))
    /\ ticks = 0

\* Rosters of the combat specification: each is Game.__init__ with part of
\* the configured roster.
CombatRosters ==
    { \* medieval_game as configured: the first two enemies and the first tree
      [v |-> "game", es |-> SubSeq(GameEnemies, 1, 2),
       rs |-> SubSeq(GameResources, 1, 1)],
      \* lumbridge: two chickens whose random spawn points overlap, and a
      \* level-2 goblin
      [v |-> "lumbridge",
       es |-> << NewEnemy("lumbridge", 620, 520, "chicken", 1),
                 NewEnemy("lumbridge", 630, 530, "chicken", 1),
                 NewEnemy("lumbridge", 1300, 550, "goblin", 2) >>,
       rs |-> << >>],
      \* village as configured: the first goblin and the first orc
      [v |-> "village",
       es |-> << NewEnemy("village", 200, 200, "goblin", 1),
                 NewEnemy("village", 150, 500, "orc", 3) >>,
       rs |-> << >>] }

\* Game.__init__ with one of the combat rosters.
InitCombat ==
    \E r \in CombatRosters : Constructed(r.v, << >>, r.es, r.rs)

\* Inputs of attack_enemy for the leveling claim.  The configured rosters
\* never yield enough experience in one reward to pass two thresholds, so
\* these hand attack_enemy enemies built by Enemy(x, y, level) with levels
\* above the configured ones.
LevelRosters ==
    { \* medieval_game: 40 XP, then a reward of 100 XP
      [v |-> "game",
       es |-> << NewEnemy("game", 200, 200, "enemy", 4),
                 NewEnemy("game", 400, 150, "enemy", 10) >>],
      \* village: one reward of 210 XP
      [v |-> "village",
       es |-> << NewEnemy("village", 200, 200, "orc", 14) >>] }

\* Game.__init__ with one of the leveling rosters in place of the
\* configured enemies.
InitLevel ==
    \E r \in LevelRosters : Constructed(r.v, << >>, r.es, << >>)

\* Rosters of the wander specification: one wandering entity each.
WanderRosters ==
    { [v |-> "lumbridge", ns |-> << NewNPC(950, 650, cd) >>, es |-> << >>] :
        cd \in CooldownChoices(60, 180) }
    \cup
    { [v |-> "lumbridge", ns |-> << >>,
       es |-> << NewEnemy("lumbridge", 1300, 550, "goblin", 2) >>],
      [v |-> "lumbridge", ns |-> << >>,
       es |-> << NewEnemy("lumbridge", 620, 520, "chicken", 1) >>] }
    \cup
    { [v |-> "village", ns |-> << NewNPC(450, 450, cd) >>, es |-> << >>] :
        cd \in CooldownChoices(60, 180) }

\* Game.__init__ with one of the wander rosters.
InitWander ==
    \E r \in WanderRosters : Constructed(r.v, r.ns, r.es, << >>)

\* village at Game.__init__ with the two bandits nearest the spawn point,
\* or ten ticks later, the player having walked ten diagonal steps to
\* (960, 960), all of them out of range of the bandit at (850, 850).
InitChase ==
    \/ Constructed("village", << >>,
                   << NewEnemy("village", 850, 850, "bandit", 1),
                      NewEnemy("village", 950, 900, "bandit", 2) >>, << >>)
    \/ /\ variant = "village"
       /\ player = Walked("village", 960, 960, 10, 2)
       /\ npcs = << >>
       /\ enemies = << NewEnemy("village", 850, 850, "bandit", 1) >>
       /\ resources = << >>
       /\ camera = UpdateCamera("village", Walked("village", 960, 960, 10, 2))
       /\ message = [kind |-> "welcome", arg |-> 0]
       /\ message_timer = 290
       /\ last = NoHandler(Walked("village", 960, 960, 10, 2))
       /\ ticks = 0

\* Rosters of the tombstone specification: the combat rosters, and village
\* with an NPC and the bandit of (950, 900), which is within aggro range of
\* the spawn point and on screen once the camera has followed the player.
InitTomb ==
    \/ InitCombat
    \/ Constructed("village", << NewNPC(450, 450, 60) >>,
                   << NewEnemy("village", 950, 900, "bandit", 2) >>, << >>)

\* The village orcs of the first view, (150, 500) and (1250, 600).
FirstViewOrcs ==
    << NewEnemy("village", 150, 500, "orc", 3),
       NewEnemy("village", 1250, 600, "orc", 3) >>

\* The village player after attack_enemy has defeated both orcs of the first
\* view (90 experience, short of the 100 of level 2).
OrcSlayer ==
    LET o == FirstViewOrcs
        p == Rewarded("village", NewPlayer("village"), o[1], o[1].hp)
    IN Rewarded("village", p, o[2], o[2].hp)

\* Starts of the message specification.  Ticks are unbounded there, so the
\* rosters hold entities that stand still while no key is held: the first
\* medieval_game enemy and tree; lumbridge without wanderers; and village in
\* its first frame, the two orcs just defeated by clicks and a goblin left
\* whose defeat is worth the level.
InitTimer ==
    \/ Constructed("game", << >>, SubSeq(GameEnemies, 1, 1),
                   SubSeq(GameResources, 1, 1))
    \/ Constructed("lumbridge", << >>, << >>, << >>)
    \/ /\ variant = "village"
       /\ player = OrcSlayer
       /\ npcs = << >>
       /\ enemies = << NewEnemy("village", 200, 200, "goblin", 1),
                       Struck("village", FirstViewOrcs[1], FirstViewOrcs[1].hp),
                       Struck("village", FirstViewOrcs[2], FirstViewOrcs[2].hp) >>
       /\ resources = << >>
       /\ camera = [x |-> 0, y |-> 0]
       /\ message = [kind |-> "defeated",
                     arg |-> XpReward("village", FirstViewOrcs[2])]
       /\ message_timer = 180
       /\ last = NoHandler(OrcSlayer)
       /\ ticks = 0

\* village sessions in which the player has lured the bandit of (850, 850)
\* to the house at (800, 500), whose collision rectangle is
\* (800, 530)-(864, 580).  The bandit follows the player one pixel per tick
\* and axis while in range and freezes while the player is out of range, so
\* the player can walk it around the house; each state is the outcome of
\* replaying Game.update over one such key sequence of n ticks.
\*   side:   the bandit touches the left side of the rectangle, the player
\*           is 140 right and 51 below it (distance 149);
\*   corner: the bandit touches the top left corner of the rectangle from
\*           outside, the player is 32 right and 102 below it.
LureStarts ==
    { [n |-> 748,
       p |-> [x |-> 908, y |-> 592, direction |-> 0, walk_timer |-> 460],
       e |-> [x |-> 768, y |-> 541, direction |-> 0, walk_timer |-> 518]],
      [n |-> 903,
       p |-> [x |-> 800, y |-> 600, direction |-> 2, walk_timer |-> 575],
       e |-> [x |-> 768, y |-> 498, direction |-> 0, walk_timer |-> 567]] }

\* The player of a lure start: still marked walking by its last move.
LuredPlayer(s) ==
    [NewPlayer("village") EXCEPT !.x = s.p.x, !.y = s.p.y,
                                 !.direction = s.p.direction,
                                 !.walking = TRUE,
                                 !.walk_timer = s.p.walk_timer]

\* The bandit of a lure start: it chased in the last tick.
LuredBandit(s) ==
    [NewEnemy("village", 850, 850, "bandit", 1) EXCEPT
        !.x = s.e.x, !.y = s.e.y, !.direction = s.e.direction,
        !.walking = TRUE, !.chasing = TRUE, !.walk_timer = s.e.walk_timer]

\* village n ticks after Game.__init__, at one of the lure starts; the
\* welcome message has expired.
InitLure ==
    \E s \in LureStarts :
        /\ variant = "village"
        /\ player = LuredPlayer(s)
        /\ npcs = << >>
        /\ enemies = << LuredBandit(s) >>
        /\ resources = << >>
        /\ camera = UpdateCamera("village", LuredPlayer(s))
        /\ message = [kind |-> "welcome", arg |-> 0]
        /\ message_timer = Max(0, 300 - s.n)
        /\ last = NoHandler(LuredPlayer(s))
        /\ ticks = 0

\* village at Game.__init__ with the bandit of (950, 900), which is within
\* aggro range of the spawn point (1000, 1000) with no building between.
InitStall ==
    Constructed("village", << >>,
                << NewEnemy("village", 950, 900, "bandit", 2) >>, << >>)

\* Rosters of the targeting specification: the first medieval_game enemy
\* and tree, the two lumbridge chickens whose spawn points overlap, and the
\* first village goblin.
InitClick ==
    \/ Constructed("game", << >>, SubSeq(GameEnemies, 1, 1),
                   SubSeq(GameResources, 1, 1))
    \/ Constructed("lumbridge", << >>,
                   << NewEnemy("lumbridge", 620, 520, "chicken", 1),
                      NewEnemy("lumbridge", 630, 530, "chicken", 1) >>, << >>)
    \/ Constructed("village", << >>,
                   << NewEnemy("village", 200, 200, "goblin", 1) >>, << >>)

\* medieval_game at Game.__init__ with its three enemies; the resources do
\* not touch the combat totals and are left out of the roster.
InitGameCombat == Constructed("game", << >>, GameEnemies, << >>)

\* medieval_game at Game.__init__ with its five resources; the enemies do
\* not touch the gathering totals and are left out of the roster.
InitGather == Constructed("game", << >>, << >>, GameResources)

(***************************************************************************)
(* Specifications.                                                         *)
(***************************************************************************)
\* Player movement in lumbridge and village, MaxTicks ticks from MoveStarts.
NextMove == TickBounded
SpecMove == InitMove /\ [][NextMove]_vars

\* Player movement in medieval_game: every tick sequence, no clicks.
NextGameMove == Tick
SpecGameMove == InitGameIdle /\ [][NextGameMove]_vars

\* Combat in the three variants: clicks, and MaxTicks idle ticks.
NextCombat == Click \/ TickIdleBounded
SpecCombat == InitCombat /\ [][NextCombat]_vars

\* attack_enemy on enemies of any level: clicks, and MaxTicks idle ticks.
NextLevel == Click \/ TickIdleBounded
SpecLevel == InitLevel /\ [][NextLevel]_vars

\* Wandering NPCs and enemies: every sequence of idle ticks.
NextWander == TickIdle
SpecWander == InitWander /\ [][NextWander]_vars

\* The village chase, MaxTicks ticks with any keys.
NextChase == TickBounded
SpecChase == InitChase /\ [][NextChase]_vars

\* The village chase next to a building, MaxTicks ticks with any keys.
NextLure == TickBounded
SpecLure == InitLure /\ [][NextLure]_vars

\* The village chase of a player who stands still, MaxStall idle ticks.
NextStall == TickIdleStall
SpecStall == InitStall /\ [][NextStall]_vars

\* Targeting: clicks at centres and edges, and MaxTicks idle ticks.
NextClick == Click \/ ClickEdge \/ TickIdleBounded
SpecClick == InitClick /\ [][NextClick]_vars

\* medieval_game combat: clicks, and MaxGameTicks ticks with any keys.
NextGameCombat == Click \/ TickGameBounded
SpecGameCombat == InitGameCombat /\ [][NextGameCombat]_vars

\* medieval_game gathering: clicks (at most MaxItems items), and MaxTicks
\* idle ticks.
NextGather == Click \/ TickIdleBounded
SpecGather == InitGather /\ [][NextGather]_vars

\* Defeated enemies over later ticks: clicks, and MaxTicks idle ticks.
NextTomb == Click \/ TickIdleBounded
SpecTomb == InitTomb /\ [][NextTomb]_vars

\* The message countdown: clicks and idle ticks without bound.  The main
\* loop calls Game.update once per frame, so ticks keep happening.
NextTimer == Click \/ TickIdle
SpecTimer == InitTimer /\ [][NextTimer]_vars /\ WF_vars(TickIdle)

(***************************************************************************)
(* Claims.                                                                 *)
(***************************************************************************)
\* The candidate position of the last Game.update: where the keys would
\* take the player from where it stood.
CandX == last.px + last.dx * 4
CandY == last.py + last.dy * 4

\* The last handler was a Game.update that called player.move.
Moved == last.op = "update" /\ (last.dx # 0 \/ last.dy # 0)

\* A 32x32 rectangle at (x, y) overlaps the footprint of b below its top
\* `roof` pixels.
OverlapsBelow(x, y, b, roof) ==
    /\ x < b.x + b.width /\ x + 32 > b.x
    /\ y < b.y + b.height /\ y + 32 > b.y + roof

\* The candidate rectangle overlaps the collision rectangle of a building.
CandBlocked ==
    \E i \in DOMAIN Buildings(variant) :
        OverlapsBelow(CandX, CandY, Buildings(variant)[i], 30)

\* The candidate rectangle overlaps a building footprint.
CandOnFootprint ==
    \E i \in DOMAIN Buildings(variant) :
        OverlapsBelow(CandX, CandY, Buildings(variant)[i], 0)

\* C1 (as claimed): in lumbridge and village the player stays inside the
\* world, 0 <= x <= world_width - 32 and 0 <= y <= world_height - 32, and a
\* move whose candidate x (or y) is outside that range leaves x (or y)
\* unchanged.
C1_PlayerStaysInWorld ==
    variant \in {"lumbridge", "village"} =>
      LET w == IF variant = "lumbridge" THEN 3000 ELSE 2000
          h == IF variant = "lumbridge" THEN 2500 ELSE 2000
      IN /\ 0 <= player.x /\ player.x <= w - 32
         /\ 0 <= player.y /\ player.y <= h - 32
         /\ Moved /\ (CandX < 0 \/ CandX > w - 32) => player.x = last.px
         /\ Moved /\ (CandY < 0 \/ CandY > h - 32) => player.y = last.py

\* C2: in medieval_game each axis of a move is accepted on its own, x iff
\* 0 <= x + dx*4 <= 992 and y iff 0 <= y + dy*4 <= 586, and the player
\* stays within [0, 992] x [0, 586].
C2_GameAxesIndependent ==
    variant = "game" =>
      /\ 0 <= player.x /\ player.x <= 992
      /\ 0 <= player.y /\ player.y <= 586
      /\ last.op = "update" =>
           /\ player.x = IF 0 <= CandX /\ CandX <= 992 THEN CandX ELSE last.px
           /\ player.y = IF 0 <= CandY /\ CandY <= 586 THEN CandY ELSE last.py

\* C2 witness: a diagonal move at the right edge, x rejected and y accepted.
C2_Witness ==
    /\ variant = "game" /\ last.op = "update"
    /\ last.dx = 1 /\ last.dy # 0
    /\ CandX > 992 /\ player.x = last.px
    /\ player.y = CandY /\ player.y # last.py

\* C3: in lumbridge and village a candidate rectangle that overlaps the
\* collision rectangle of a building (footprint minus the top 30 pixels)
\* changes neither x nor y; a candidate that overlaps footprints in their
\* roof strip only is not rejected.
C3_BuildingBlocksWholeMove ==
    variant \in {"lumbridge", "village"} /\ Moved =>
      /\ CandBlocked => player.x = last.px /\ player.y = last.py
      /\ CandOnFootprint /\ ~CandBlocked =>
           player.x = CandX /\ player.y = CandY

\* C3 witness: a diagonal move is blocked although its horizontal part
\* alone would have been clear.
C3_Witness ==
    /\ variant \in {"lumbridge", "village"} /\ Moved
    /\ last.dx # 0 /\ last.dy # 0
    /\ CandBlocked
    /\ ~\E i \in DOMAIN Buildings(variant) :
          OverlapsBelow(CandX, last.py, Buildings(variant)[i], 30)
    /\ player.x = last.px /\ player.y = last.py

\* C3, second case reached: a candidate on a roof strip only was accepted.
C3_RoofReached ==
    /\ variant \in {"lumbridge", "village"} /\ Moved
    /\ CandOnFootprint /\ ~CandBlocked
    /\ player.x = CandX /\ player.y = CandY

\* C4 (as claimed): when a move is rejected because the candidate rectangle
\* overlaps a building, walking is False and walk_timer is 0 afterwards.
C4_BlockedMoveClearsWalking ==
    variant \in {"lumbridge", "village"} /\ Moved /\ CandBlocked =>
      ~player.walking /\ player.walk_timer = 0

\* The last handler was a click whose point lies on a dead enemy and on no
\* alive enemy nor live resource.
OnDeadOnly(es, rs, wx, wy) ==
    /\ \E i \in DOMAIN es : ~es[i].alive /\ Contains(es[i], wx, wy)
    /\ ~\E i \in DOMAIN es : es[i].alive /\ Contains(es[i], wx, wy)
    /\ ~\E i \in DOMAIN rs : rs[i].hp > 0 /\ Contains(rs[i], wx, wy)

\* C5 (as claimed): a pointer activation whose point lies on a dead enemy
\* leaves that enemy's hp, the player's combat_xp, gold and level, and the
\* message as they were.
C5_ClickOnDeadIsNoOp ==
    [][ last'.op = "click" =>
          \A i \in DOMAIN enemies :
              ~enemies[i].alive /\ Contains(enemies[i], last'.mx, last'.my) =>
                /\ enemies'[i].hp = enemies[i].hp
                /\ player'.combat_xp = player.combat_xp
                /\ player'.gold = player.gold
                /\ player'.level = player.level
                /\ message' = message
                /\ message_timer' = message_timer ]_vars

\* C5 (amended): a pointer activation never changes a dead enemy, and one
\* whose point lies on a dead enemy and on no alive enemy (nor, in
\* medieval_game, on a live resource) changes nothing: every enemy, the
\* player and the message are as before.
C5_ClickOnDeadOnlyIsNoOp ==
    [][ last'.op = "click" =>
          /\ \A i \in DOMAIN enemies :
                 ~enemies[i].alive => enemies'[i] = enemies[i]
          /\ OnDeadOnly(enemies, resources, last'.mx, last'.my) =>
                /\ enemies' = enemies
                /\ player' = player
                /\ resources' = resources
                /\ message' = message
                /\ message_timer' = message_timer ]_vars

\* C5 witness: the last click was on a dead enemy and attacked nothing.
C5_Witness ==
    /\ last.op = "click" /\ last.target = 0
    /\ OnDeadOnly(enemies, resources, last.mx, last.my)

\* The experience and gold the claim states for defeating e.
ClaimedXp(v, e) ==
    IF v = "lumbridge" THEN (IF e.enemy_type = "chicken" THEN 5 ELSE e.level * 10)
    ELSE IF v = "game" THEN e.level * 10
    ELSE e.level * 15
ClaimedGold(v, e) == IF v = "village" THEN e.level * 10 ELSE e.level * 5

\* C6: the attack that brings an enemy of level L to hp <= 0 credits exactly
\* L * xpPerLevel experience and L * goldPerLevel gold (lumbridge 10 and 5,
\* chickens a flat 5 XP; medieval_game 10 and 5; village 15 and 10), and an
\* attack that leaves hp > 0 credits nothing.
C6_DefeatCreditsReward ==
    [][ last'.op = "click" =>
          LET fallen == { i \in DOMAIN enemies :
                            enemies[i].hp > 0 /\ enemies'[i].hp <= 0 }
          IN /\ Cardinality(fallen) <= 1
             /\ \A i \in fallen :
                  /\ player'.combat_xp
                       = player.combat_xp + ClaimedXp(variant, enemies[i])
                  /\ player'.gold
                       = player.gold + ClaimedGold(variant, enemies[i])
             /\ fallen = {} =>
                  /\ player'.combat_xp = player.combat_xp
                  /\ player'.gold = player.gold ]_vars

\* C6 witness: a level-2 lumbridge goblin has just been defeated, for
\* +20 XP and +10 gold.
C6_Witness ==
    /\ variant = "lumbridge" /\ last.op = "click" /\ last.killed
    /\ enemies[last.target].enemy_type = "goblin"
    /\ enemies[last.target].level = 2
    /\ player.combat_xp = 20 /\ player.gold = 10

\* C7: for every enemy, alive iff hp > 0, and while alive 0 <= hp <= max_hp.
C7_AliveIffHpPositive ==
    \A i \in DOMAIN enemies :
        /\ enemies[i].alive <=> enemies[i].hp > 0
        /\ enemies[i].alive => 0 <= enemies[i].hp /\ enemies[i].hp <= enemies[i].max_hp

\* C7 witness: the last click brought an enemy to hp <= 0 and it is dead,
\* while another enemy is wounded and alive.
C7_Witness ==
    /\ last.op = "click" /\ last.killed
    /\ enemies[last.target].hp <= 0 /\ ~enemies[last.target].alive
    /\ \E i \in DOMAIN enemies :
          enemies[i].alive /\ enemies[i].hp < enemies[i].max_hp

\* C8: one resolved attack raises the player's level by at most 1.
C8_OneLevelPerAttack ==
    [][ player'.level <= player.level + 1 ]_vars

\* C8 witness: after a defeat in a variant with leveling the player is at
\* level 2 while the experience total meets the threshold of level 2 too
\* (medieval_game: 140 XP >= 2 * 50).
C8_Witness ==
    /\ variant \in {"game", "village"}
    /\ last.op = "click" /\ last.killed
    /\ player.level = 2
    /\ player.combat_xp >= 2 * (IF variant = "game" THEN 50 ELSE 100)

\* The wandering entities with the radius the claim gives each: lumbridge
\* NPCs 30, lumbridge enemies and village NPCs 100.
Wanderers ==
    { [c |-> npcs[i], r |-> IF variant = "lumbridge" THEN 30 ELSE 100] :
        i \in DOMAIN npcs }
    \cup { [c |-> enemies[i], r |-> 100] :
             i \in { k \in DOMAIN enemies : variant = "lumbridge" } }

\* Squared straight-line distance of c from its starting position.
Dist2(c) ==
    (c.x - c.start_x) * (c.x - c.start_x) + (c.y - c.start_y) * (c.y - c.start_y)

\* C9 (as claimed): every wandering entity stays within straight-line
\* distance R of its starting position.
C9_WithinRadius ==
    \A w \in Wanderers : Dist2(w.c) < w.r * w.r

\* C9 (amended): every wandering entity stays within R of its starting
\* position on each axis, hence within straight-line distance R * sqrt(2);
\* the straight-line bound R itself holds for lumbridge NPCs (R = 30).
C9_WithinSquare ==
    \A w \in Wanderers :
        /\ Abs(w.c.x - w.c.start_x) < w.r
        /\ Abs(w.c.y - w.c.start_y) < w.r
        /\ Dist2(w.c) < 2 * w.r * w.r
        /\ w.r = 30 => Dist2(w.c) < w.r * w.r

\* C9 witness: a wandering entity is at straight-line distance >= R from
\* its starting position.
C9_Witness ==
    \E w \in Wanderers : Dist2(w.c) >= w.r * w.r /\ last.op = "update"

\* C10: in village an alive enemy whose distance to the player (as its
\* update sees it, after the player's move) is >= 150 does not move, and
\* chasing and walking are False afterwards.
C10_OutOfRangeStandsStill ==
    [][ last'.op = "update" /\ variant = "village" =>
          \A i \in DOMAIN enemies :
              /\ enemies[i].alive
              /\ (player'.x - enemies[i].x) * (player'.x - enemies[i].x)
                   + (player'.y - enemies[i].y) * (player'.y - enemies[i].y)
                   >= 150 * 150
              => /\ enemies'[i].x = enemies[i].x
                 /\ enemies'[i].y = enemies[i].y
                 /\ ~enemies'[i].chasing
                 /\ ~enemies'[i].walking ]_vars

\* C10 witness: an enemy that chased the player earlier (it has left its
\* starting position) was out of range in the last update and stands still,
\* neither chasing nor walking.
C10_Witness ==
    /\ variant = "village" /\ last.op = "update"
    /\ \E i \in DOMAIN enemies :
          /\ enemies[i].alive
          /\ enemies[i].x # enemies[i].start_x
          /\ (player.x - enemies[i].x) * (player.x - enemies[i].x)
               + (player.y - enemies[i].y) * (player.y - enemies[i].y)
               >= 150 * 150
          /\ ~enemies[i].chasing /\ ~enemies[i].walking

\* Squared straight-line distance between the player p and the enemy e.
PlayerDist2(p, e) ==
    (p.x - e.x) * (p.x - e.x) + (p.y - e.y) * (p.y - e.y)

\* C11: in village an alive enemy whose distance to the player (as its
\* update sees it) is just inside the aggro radius, 149 <= distance < 150,
\* moves one step of its speed closer on at least one axis, is chasing
\* afterwards, and its rectangle after the step overlaps no building
\* collision rectangle.
C11_InRangeStepsCloser ==
    [][ last'.op = "update" /\ variant = "village" =>
          \A i \in DOMAIN enemies :
              /\ enemies[i].alive
              /\ PlayerDist2(player', enemies[i]) >= 149 * 149
              /\ PlayerDist2(player', enemies[i]) < 150 * 150
              => /\ \/ Abs(player'.x - enemies'[i].x)
                         = Abs(player'.x - enemies[i].x) - enemies[i].speed
                    \/ Abs(player'.y - enemies'[i].y)
                         = Abs(player'.y - enemies[i].y) - enemies[i].speed
                 /\ enemies'[i].chasing
                 /\ ~HitsBuilding("village", enemies'[i].x, enemies'[i].y) ]_vars

\* C11 witness: an enemy has just stepped down towards a player who was at
\* distance exactly 149, while its step to the right was blocked by a
\* building.
C11_Witness ==
    /\ variant = "village" /\ last.op = "update"
    /\ \E i \in DOMAIN enemies :
          /\ enemies[i].alive /\ enemies[i].chasing
          /\ enemies[i].direction = 0
          /\ player.x - enemies[i].x > 5
          /\ (player.x - enemies[i].x) * (player.x - enemies[i].x)
               + (player.y - enemies[i].y + 1) * (player.y - enemies[i].y + 1)
               = 149 * 149
          /\ HitsBuilding("village", enemies[i].x + 1, enemies[i].y - 1)
          /\ ~HitsBuilding("village", enemies[i].x, enemies[i].y)

\* C12: a defeated enemy stays in its collection: the number of enemies
\* and of NPCs never changes (the buildings are fixed), and no step changes
\* the x, y or hp of an enemy that is dead.
C12_DeadEnemiesStay ==
    [][ /\ Len(enemies') = Len(enemies)
        /\ Len(npcs') = Len(npcs)
        /\ \A i \in DOMAIN enemies :
              ~enemies[i].alive =>
                /\ ~enemies'[i].alive
                /\ enemies'[i].x = enemies[i].x
                /\ enemies'[i].y = enemies[i].y
                /\ enemies'[i].hp = enemies[i].hp ]_vars

\* C12 witness: a tick has just passed over a dead village enemy that lies
\* within aggro range of the player and more than 5 pixels off on an axis,
\* where an alive enemy would have stepped.
C12_Witness ==
    /\ variant = "village" /\ last.op = "update"
    /\ \E i \in DOMAIN enemies :
          /\ ~enemies[i].alive
          /\ PlayerDist2(player, enemies[i]) < 150 * 150
          /\ Abs(player.x - enemies[i].x) > 5

\* The sign of an integer.
Sign(n) == IF n > 0 THEN 1 ELSE IF n < 0 THEN -1 ELSE 0

\* C13: within a tick the enemies are updated after the player: in village
\* an alive enemy chases exactly when the player's position after this
\* tick's move is within the aggro radius, and every step it takes is
\* towards that position.
C13_EnemiesSeeMovedPlayer ==
    [][ last'.op = "update" /\ variant = "village" =>
          \A i \in DOMAIN enemies :
              enemies[i].alive =>
                /\ enemies'[i].chasing
                      <=> PlayerDist2(player', enemies[i]) < 150 * 150
                /\ enemies'[i].x # enemies[i].x =>
                      Sign(enemies'[i].x - enemies[i].x)
                        = Sign(player'.x - enemies[i].x)
                /\ enemies'[i].y # enemies[i].y =>
                      Sign(enemies'[i].y - enemies[i].y)
                        = Sign(player'.y - enemies[i].y) ]_vars

\* C13 witness: an enemy has just taken its first chase step, from its
\* starting position, in a tick before whose move the player was out of
\* range of that position.
C13_Witness ==
    /\ variant = "village" /\ last.op = "update"
    /\ \E i \in DOMAIN enemies :
          /\ enemies[i].alive /\ enemies[i].chasing
          /\ enemies[i].walk_timer = 1
          /\ enemies[i].x # enemies[i].start_x
          /\ (last.px - enemies[i].start_x) * (last.px - enemies[i].start_x)
               + (last.py - enemies[i].start_y) * (last.py - enemies[i].start_y)
               >= 150 * 150

\* The countdown value the claim gives for the message a click has set.
ClaimedTimer(kind) ==
    IF kind = "hit" THEN 120
    ELSE IF kind = "defeated" THEN 180
    ELSE IF kind = "levelup" THEN 240
    ELSE IF kind = "gathering" THEN 60
    ELSE 180

\* C14: message_timer is never negative; a tick decrements it by exactly 1
\* while it is positive and leaves it at 0 otherwise; a click that attacks
\* or gathers restarts it at the fixed value of its message (120 hit, 180
\* defeat, 240 level-up, 60 / 180 gathering) and any other click leaves it;
\* and eventually it is 0, and the message no longer shown, for good.
C14_MessageCountdown ==
    /\ [](message_timer >= 0)
    /\ [][ /\ last'.op = "update" =>
               message_timer' = IF message_timer > 0 THEN message_timer - 1
                                ELSE 0
           /\ last'.op = "click" =>
               IF last'.target # 0 \/ resources' # resources
               THEN /\ message'.kind \in
                         {"hit", "defeated", "levelup", "gathering", "gathered"}
                    /\ last'.target # 0 <=>
                         message'.kind \in {"hit", "defeated", "levelup"}
                    /\ message_timer' = ClaimedTimer(message'.kind)
               ELSE message_timer' = message_timer /\ message' = message ]_vars
    /\ <>[](message_timer = 0 /\ ~MessageShown)

\* C14 witness: the countdown of a level-up message has run down from 240
\* to 0 over idle ticks.
C14_Witness ==
    /\ message.kind = "levelup" /\ message_timer = 0
    /\ last.op = "update" /\ ~MessageShown

\* C15: in lumbridge and village, after a tick with no movement key held
\* the player is not marked walking and its walk_timer is 0.
C15_IdleTickClearsWalking ==
    (variant \in {"lumbridge", "village"} /\ last.op = "update"
       /\ last.dx = 0 /\ last.dy = 0)
      => (~player.walking /\ player.walk_timer = 0)

\* The combat statistics a level-up changes.
CombatStats(p) == <<p.level, p.attack, p.defense, p.max_hp, p.hp>>

\* C16: in medieval_game (50 XP per level, +2 max hp) and village (100 XP
\* per level, +3 max hp) an attack levels the player up iff it defeats its
\* target and the experience after the reward is at least level * threshold;
\* the level-up adds 1 to level, attack and defense, the fixed amount to
\* max_hp, and sets hp to the new max_hp; any other attack leaves level,
\* attack, defense, max_hp and hp unchanged.
C16_LevelUpRule ==
    [][ (variant \in {"game", "village"} /\ last'.op = "click"
           /\ last'.target # 0) =>
          LET threshold == IF variant = "game" THEN 50 ELSE 100
              gain == IF variant = "game" THEN 2 ELSE 3
              due == /\ last'.killed
                     /\ player'.combat_xp >= player.level * threshold
          IN IF due
             THEN CombatStats(player') =
                    <<player.level + 1, player.attack + 1, player.defense + 1,
                      player.max_hp + gain, player.max_hp + gain>>
             ELSE CombatStats(player') = CombatStats(player) ]_vars

\* C16 witness: a village attack has defeated its target and leveled the
\* player up to level 2 with 13 hit points of 13.
C16_Witness ==
    /\ variant = "village" /\ last.op = "click" /\ last.killed
    /\ player.combat_xp >= 100
    /\ CombatStats(player) = <<2, 2, 2, 13, 13>>

\* The wanderers of the session with the radius R the claims give each
\* (30 lumbridge NPC, 100 lumbridge enemy and village NPC), the length of
\* one wander step, the entity after the update that is being taken, and
\* the random draw that update read.
WanderSteps ==
    { [c |-> npcs[i], after |-> npcs'[i], d |-> last'.nd[i],
       r |-> IF variant = "lumbridge" THEN 30 ELSE 100,
       step |-> IF variant = "lumbridge" THEN 10 ELSE npcs[i].speed * 5] :
        i \in DOMAIN npcs }
    \cup { [c |-> enemies[i], after |-> enemies'[i], d |-> last'.ed[i],
            r |-> 100, step |-> enemies[i].speed * 10] :
             i \in { k \in DOMAIN enemies :
                       variant = "lumbridge" /\ enemies[k].alive } }

\* C17: a wander proposal is accepted jointly: x and y are replaced by the
\* proposal only if it lies within R of the start on both axes, and
\* otherwise neither coordinate changes (lumbridge, which tests nothing
\* else, then always takes the proposal); hence every wandering entity is
\* always within R of its start on each axis.
C17_JointAcceptance ==
    /\ [](\A w \in Wanderers : /\ Abs(w.c.x - w.c.start_x) < w.r
                                /\ Abs(w.c.y - w.c.start_y) < w.r)
    /\ [][ last'.op = "update" =>
             \A w \in WanderSteps :
                LET new_x == w.c.x + w.d.dx * w.step
                    new_y == w.c.y + w.d.dy * w.step
                    joint == /\ Abs(new_x - w.c.start_x) < w.r
                             /\ Abs(new_y - w.c.start_y) < w.r
                    taken == w.after.x = new_x /\ w.after.y = new_y
                    kept == w.after.x = w.c.x /\ w.after.y = w.c.y
                IN /\ taken \/ kept
                   /\ ~joint => kept
                   /\ (joint /\ variant = "lumbridge") => taken ]_vars

\* C17 witness: a lumbridge enemy 80 right of its start has just drawn a
\* diagonal proposal whose x is outside the area and whose y is inside, and
\* has not moved (it is not walking after the attempt).
C17_Witness ==
    /\ variant = "lumbridge" /\ last.op = "update"
    /\ \E i \in DOMAIN enemies :
          LET e == enemies[i]
              d == last.ed[i]
          IN /\ d.dx # 0 /\ d.dy # 0 /\ e.wander_timer = 0 /\ ~e.walking
             /\ Abs(e.x + d.dx * e.speed * 10 - e.start_x) >= 100
             /\ Abs(e.y + d.dy * e.speed * 10 - e.start_y) < 100

\* The cooldown threshold of a wanderer: the NPC's own wander_cooldown, the
\* fixed 60 of a lumbridge enemy.
Threshold(c) ==
    IF "wander_cooldown" \in DOMAIN c THEN c.wander_cooldown ELSE 60

\* C18: after every update 0 <= wander_timer < threshold for every
\* wanderer; an update that brings the counter to its threshold resets it
\* to 0 and, for an NPC, redraws the threshold from its range (120..300
\* lumbridge, 60..180 village), whether or not the step was accepted; any
\* other update adds 1 to the counter and keeps the threshold and the
\* position.
C18_CooldownRestarts ==
    /\ [](\A w \in Wanderers :
            0 <= w.c.wander_timer /\ w.c.wander_timer < Threshold(w.c))
    /\ [][ last'.op = "update" =>
             \A w \in WanderSteps :
                IF w.c.wander_timer + 1 >= Threshold(w.c)
                THEN /\ w.after.wander_timer = 0
                     /\ "wander_cooldown" \in DOMAIN w.c =>
                          /\ w.after.wander_cooldown = w.d.cd
                          /\ w.d.cd \in (IF variant = "lumbridge"
                                          THEN 120..300 ELSE 60..180)
                ELSE /\ w.after.wander_timer = w.c.wander_timer + 1
                     /\ Threshold(w.after) = Threshold(w.c)
                     /\ w.after.x = w.c.x /\ w.after.y = w.c.y ]_vars

\* C18 witness: a lumbridge NPC at the corner (+20, -20) of its area has
\* just drawn the proposal (+10, +10), which leaves the area (an accepted
\* one would have started outside it); its counter is 0 and its threshold
\* the value just drawn.
C18_Witness ==
    /\ variant = "lumbridge" /\ last.op = "update"
    /\ \E i \in DOMAIN npcs :
          LET n == npcs[i]
              d == last.nd[i]
          IN /\ n.x - n.start_x = 20 /\ n.y - n.start_y = -20
             /\ d.dx = 1 /\ d.dy = 1
             /\ n.wander_timer = 0 /\ n.wander_cooldown = d.cd

\* C19: in village a wander proposal (a nonzero step drawn when the
\* cooldown has elapsed) is applied iff it stays within the area and its
\* 32x32 rectangle overlaps no building collision rectangle; a rejected one
\* leaves x, y, walking and direction unchanged; and an NPC that overlaps
\* no building before an update overlaps none after it.
C19_WanderAvoidsBuildings ==
    [][ (variant = "village" /\ last'.op = "update") =>
          \A i \in DOMAIN npcs :
             LET n == npcs[i]
                 d == last'.nd[i]
                 new_x == n.x + d.dx * n.speed * 5
                 new_y == n.y + d.dy * n.speed * 5
                 proposed == /\ n.wander_timer + 1 >= n.wander_cooldown
                             /\ (d.dx # 0 \/ d.dy # 0)
                 clear == ~HitsBuilding("village", new_x, new_y)
                 inside == /\ Abs(new_x - n.start_x) < 100
                           /\ Abs(new_y - n.start_y) < 100
                 stays == npcs'[i].x = n.x /\ npcs'[i].y = n.y
             IN /\ proposed =>
                     IF clear /\ inside
                     THEN npcs'[i].x = new_x /\ npcs'[i].y = new_y
                     ELSE /\ stays
                          /\ npcs'[i].walking = n.walking
                          /\ npcs'[i].direction = n.direction
                /\ \/ stays
                   \/ HitsBuilding("village", n.x, n.y)
                   \/ ~HitsBuilding("village", npcs'[i].x, npcs'[i].y) ]_vars

\* C19 witness: a village NPC has just drawn a step that stays within its
\* area and whose rectangle overlaps a building, and has not taken it (it
\* is not walking after the attempt).
C19_Witness ==
    /\ variant = "village" /\ last.op = "update"
    /\ \E i \in DOMAIN npcs :
          LET n == npcs[i]
              d == last.nd[i]
              new_x == n.x + d.dx * n.speed * 5
              new_y == n.y + d.dy * n.speed * 5
          IN /\ (d.dx # 0 \/ d.dy # 0) /\ n.wander_timer = 0 /\ ~n.walking
             /\ Abs(new_x - n.start_x) < 100 /\ Abs(new_y - n.start_y) < 100
             /\ HitsBuilding("village", new_x, new_y)
             /\ ~HitsBuilding("village", n.x, n.y)

\* C20 (as claimed): in the village chase the horizontal step is taken iff
\* the rectangle at (x_old + step, y_old) overlaps no building, and the
\* vertical step iff the rectangle at (x_old, y_old + step) overlaps none,
\* x_old and y_old being the enemy's coordinates at the start of the tick.
C20_AxesTestedFromStart ==
    [][ last'.op = "update" /\ variant = "village" =>
          \A i \in DOMAIN enemies :
             LET e == enemies[i]
                 dx == player'.x - e.x
                 dy == player'.y - e.y
                 new_x == e.x + Sign(dx) * e.speed
                 new_y == e.y + Sign(dy) * e.speed
             IN (e.alive /\ PlayerDist2(player', e) < 150 * 150) =>
                  /\ enemies'[i].x =
                       IF Abs(dx) > 5 /\ ~HitsBuilding("village", new_x, e.y)
                       THEN new_x ELSE e.x
                  /\ enemies'[i].y =
                       IF Abs(dy) > 5 /\ ~HitsBuilding("village", e.x, new_y)
                       THEN new_y ELSE e.y ]_vars

\* C20 (amended): the horizontal step is tested at (x_old + step, y_old);
\* the vertical step is tested at (x, y_old + step) with x the enemy's
\* coordinate after the horizontal step of the same tick, so the enemy's
\* rectangle after the tick is one of the rectangles tested.
C20_VerticalTestedAfterHorizontal ==
    [][ last'.op = "update" /\ variant = "village" =>
          \A i \in DOMAIN enemies :
             LET e == enemies[i]
                 dx == player'.x - e.x
                 dy == player'.y - e.y
                 new_x == e.x + Sign(dx) * e.speed
                 new_y == e.y + Sign(dy) * e.speed
             IN (e.alive /\ PlayerDist2(player', e) < 150 * 150) =>
                  /\ enemies'[i].x =
                       IF Abs(dx) > 5 /\ ~HitsBuilding("village", new_x, e.y)
                       THEN new_x ELSE e.x
                  /\ enemies'[i].y =
                       IF Abs(dy) > 5
                          /\ ~HitsBuilding("village", enemies'[i].x, new_y)
                       THEN new_y ELSE e.y ]_vars

\* C20 witness: at the top left corner of the house the bandit has stepped
\* right but not down towards a player below it: the rectangle one down
\* from where it started was clear, the one down from where it stands
\* overlaps the house.
C20_Witness ==
    /\ variant = "village" /\ last.op = "update"
    /\ \E i \in DOMAIN enemies :
          LET e == enemies[i]
          IN /\ e.alive /\ e.chasing /\ e.direction = 1
             /\ e.x = 769 /\ e.y = 498
             /\ player.y - e.y > 5
             /\ ~HitsBuilding("village", e.x - 1, e.y + 1)
             /\ HitsBuilding("village", e.x, e.y + 1)

\* The wanderers whose update sets and decays the walking flag: village
\* NPCs and alive lumbridge enemies.
WalkingWanderers ==
    { npcs[i] : i \in { k \in DOMAIN npcs : variant = "village" } }
    \cup { enemies[i] : i \in { k \in DOMAIN enemies :
                                  variant = "lumbridge" /\ enemies[k].alive } }

\* C21: for a lumbridge enemy and a village NPC, walking is set only by an
\* accepted nonzero wander step; while walking the walk_timer counts the
\* updates since that step (1..20, one more than wander_timer), and the
\* update in which it would exceed 20 clears the flag and resets the timer
\* to 0; so walking is True after at most 20 updates in a row (fewer than
\* the 21 claimed) and walk_timer is 0 whenever the flag is clear.
C21_WalkingDecays ==
    /\ [](\A c \in WalkingWanderers :
            IF c.walking
            THEN /\ 1 <= c.walk_timer /\ c.walk_timer <= 20
                 /\ c.wander_timer = c.walk_timer - 1
            ELSE c.walk_timer = 0)
    /\ [][ last'.op = "update" =>
             \A w \in { s \in WanderSteps : s.c \in WalkingWanderers } :
                /\ (w.c.walking /\ w.c.walk_timer = 20) =>
                      (~w.after.walking /\ w.after.walk_timer = 0)
                /\ (w.c.walking /\ w.c.walk_timer < 20) =>
                      (w.after.walking
                         /\ w.after.walk_timer = w.c.walk_timer + 1)
                /\ (~w.c.walking /\ w.after.walking) =>
                      /\ w.after.x # w.c.x \/ w.after.y # w.c.y
                      /\ w.after.walk_timer = 1 ]_vars

\* C21 witness: 80 ticks into a lumbridge session (the welcome countdown
\* reads 220) the enemy that took a step at its first wander attempt, 20
\* updates ago, is no longer walking.
C21_Witness ==
    /\ variant = "lumbridge" /\ last.op = "update" /\ message_timer = 220
    /\ \E i \in DOMAIN enemies :
          LET e == enemies[i]
          IN /\ e.alive /\ e.wander_timer = 20
             /\ e.x # e.start_x \/ e.y # e.start_y
             /\ ~e.walking /\ e.walk_timer = 0

\* The tick in which an enemy that started in range of a player standing
\* still, with no building between them, takes its last step: one step per
\* tick on each axis until the separation on that axis is 5.
Arrival(p, e) ==
    Max(Abs(p.x - e.start_x), Abs(p.y - e.start_y)) - 5

\* C22: a village enemy that has stayed within aggro range without an
\* accepted move for 21 ticks in a row (both axis separations <= 5 since
\* it arrived) is not walking.
C22_StalledChaseStopsWalking ==
    \A i \in DOMAIN enemies :
        LET e == enemies[i]
        IN (/\ variant = "village" /\ e.alive
            /\ PlayerDist2(player, e) < 150 * 150
            /\ Abs(player.x - e.x) <= 5 /\ Abs(player.y - e.y) <= 5
            /\ ticks >= Arrival(player, e) + 21)
           => ~e.walking

\* The members of the sequence cs (with the liveness given by live) whose
\* rectangle [x, x + 32] x [y, y + 32], bounds inclusive, contains (wx, wy).
Under(cs, live, wx, wy) ==
    { i \in DOMAIN cs : /\ i \in live
                        /\ cs[i].x <= wx /\ wx <= cs[i].x + 32
                        /\ cs[i].y <= wy /\ wy <= cs[i].y + 32 }

\* The least member of a nonempty set of indices.
First(S) == CHOOSE i \in S : \A j \in S : i <= j

\* C23: a pointer activation resolves at most one interaction: it lowers
\* the hp of the first alive enemy, in list order, whose rectangle (bounds
\* inclusive) contains the point, and changes no other enemy and no
\* resource; with no such enemy it changes no enemy, and in medieval_game
\* gathers from the first live resource under the point and from no other;
\* with neither it changes nothing.
C23_OneTargetPerClick ==
    [][ last'.op = "click" =>
          LET es == Under(enemies, { i \in DOMAIN enemies : enemies[i].alive },
                          last'.mx, last'.my)
              rs == Under(resources,
                          { i \in DOMAIN resources : resources[i].hp > 0 },
                          last'.mx, last'.my)
          IN IF es # {}
             THEN /\ last'.target = First(es)
                  /\ enemies'[First(es)].hp < enemies[First(es)].hp
                  /\ \A k \in DOMAIN enemies \ {First(es)} :
                         enemies'[k] = enemies[k]
                  /\ resources' = resources
             ELSE /\ enemies' = enemies /\ last'.target = 0
                  /\ IF variant = "game" /\ rs # {}
                     THEN /\ resources'[First(rs)] # resources[First(rs)]
                          /\ \A k \in DOMAIN resources \ {First(rs)} :
                                 resources'[k] = resources[k]
                     ELSE resources' = resources /\ player' = player ]_vars

\* C23 witness: the last click, on the bottom right corner of the first of
\* two alive enemies and inside the second, has struck the first and left
\* the second untouched.
C23_Witness ==
    /\ last.op = "click" /\ last.target = 1 /\ Len(enemies) >= 2
    /\ last.mx = enemies[1].x + 32 /\ last.my = enemies[1].y + 32
    /\ enemies[1].hp < enemies[1].max_hp
    /\ enemies[2].alive /\ enemies[2].hp = enemies[2].max_hp
    /\ 2 \in Under(enemies, {2}, last.mx, last.my)

\* C24: in lumbridge and village the player's 32x32 rectangle overlaps no
\* building collision rectangle (the footprint without its top 30 pixels).
C24_PlayerOutsideBuildings ==
    variant \in {"lumbridge", "village"} =>
      \A i \in DOMAIN Buildings(variant) :
          ~OverlapsBelow(player.x, player.y, Buildings(variant)[i], 30)

\* C24 witness: the player stands against the right side of a building
\* after a move to the left whose candidate overlapped it.
C24_Witness ==
    /\ variant \in {"lumbridge", "village"} /\ Moved
    /\ last.dx = -1 /\ last.dy = 0 /\ CandBlocked
    /\ player.x = last.px /\ player.y = last.py
    /\ \E i \in DOMAIN Buildings(variant) :
          player.x = Buildings(variant)[i].x + Buildings(variant)[i].width

\* The experience the claim's rewards give for the dead enemies of es.
DeadXp(v, es) ==
    LET sum[n \in 0..Len(es)] ==
          IF n = 0 THEN 0
          ELSE sum[n - 1] + (IF es[n].alive THEN 0 ELSE ClaimedXp(v, es[n]))
    IN sum[Len(es)]

\* The gold the claim's rewards give for the dead enemies of es.
DeadGold(v, es) ==
    LET sum[n \in 0..Len(es)] ==
          IF n = 0 THEN 0
          ELSE sum[n - 1] + (IF es[n].alive THEN 0 ELSE ClaimedGold(v, es[n]))
    IN sum[Len(es)]

\* C25: rewards are conserved: combat_xp is the sum of the experience
\* rewards of the dead enemies, gold is the starting gold (100 in village,
\* 0 elsewhere) plus the sum of their gold rewards, and no step lowers
\* either total.
C25_RewardsConserved ==
    /\ [](/\ player.combat_xp = DeadXp(variant, enemies)
          /\ player.gold = (IF variant = "village" THEN 100 ELSE 0)
                             + DeadGold(variant, enemies))
    /\ [][ /\ player'.combat_xp >= player.combat_xp
           /\ player'.gold >= player.gold ]_vars

\* C25 witness: the second enemy of a session has just been defeated, and
\* the experience total is positive.
C25_Witness ==
    /\ last.op = "click" /\ last.killed /\ player.combat_xp > 0
    /\ Cardinality({ i \in DOMAIN enemies : ~enemies[i].alive }) = 2

\* The number of alive enemies of es.
AliveCount(es) == Cardinality({ i \in DOMAIN es : es[i].alive })

C27_StatsFollowLevel ==
    /\ [](variant \in {"game", "village"} =>
            /\ player.hp = player.max_hp
            /\ player.attack = player.level
            /\ player.defense = player.level
            /\ player.max_hp = 10 + (IF variant = "game" THEN 2 ELSE 3)
                                       * (player.level - 1))
    /\ [][ (variant \in {"game", "village"}
             /\ <<player'.level, player'.hp, player'.max_hp, player'.attack,
                   player'.defense>>
                  # <<player.level, player.hp, player.max_hp, player.attack,
                      player.defense>>) =>
            (last'.op = "click" /\ last'.killed
               /\ player'.level = player.level + 1) ]_vars

\* C27 witness: the medieval_game player has reached level 3, with attack
\* and defense 3 and 14 hit points of 14.
C27_Witness ==
    /\ variant = "game" /\ last.op = "click" /\ last.killed
    /\ player.level = 3 /\ player.attack = 3 /\ player.defense = 3
    /\ player.hp = 14 /\ player.max_hp = 14

\* C28: in medieval_game with the three configured enemies (levels 1, 2,
\* 1) combat_xp <= 40 and gold <= 20, so the level-up threshold 50 is never
\* met: level, attack and defense stay 1 and max_hp stays 10.
C28_GameNeverLevelsUp ==
    variant = "game" =>
      /\ player.combat_xp <= 40 /\ player.combat_xp < 50 * player.level
      /\ player.gold <= 20
      /\ player.level = 1 /\ player.attack = 1 /\ player.defense = 1
      /\ player.max_hp = 10

\* C28 witness: all three enemies are dead, the totals are 40 experience
\* and 20 gold, and the player is still at level 1.
C28_Witness ==
    /\ variant = "game" /\ Len(enemies) = 3
    /\ \A i \in DOMAIN enemies : ~enemies[i].alive
    /\ player.combat_xp = 40 /\ player.gold = 20 /\ player.level = 1

\* The item a node of the given type yields.
ItemOf(type) ==
    IF type = "tree" THEN "logs" ELSE IF type = "rock" THEN "ore" ELSE "fish"

\* The count of an item, an absent key meaning 0.
Held(p, item) == IF item \in DOMAIN p.inventory THEN p.inventory[item] ELSE 0

====
